---- MODULE Spec2Model ----
(***************************************************************************)
(* A model of the rubrs tree-walking interpreter: the lexically nested     *)
(* Environment (src/src/environment.rs), the evaluator of statements and   *)
(* expressions (src/src/types.rs) and the three loops that drive it:       *)
(* Interpreter::run (src/src/interpreter.rs), run_file and repl            *)
(* (src/src/main.rs).                                                      *)
(*                                                                         *)
(* Environments are reference counted cells (Rc<RefCell<Environment>>);    *)
(* the model keeps them in a heap `envs`, a sequence indexed by the        *)
(* environment's identity, and never frees one.  Numbers are the integers  *)
(* the modelled programs compute with.  Evaluation is a recursive descent  *)
(* over the tree, as in the source; every evaluation returns the result    *)
(* (Ok / Err / Panic) together with the heap and the output it leaves.     *)
(***************************************************************************)
EXTENDS Integers, Sequences, FiniteSets, TLC

VARIABLES
    mode,      \* which loop drives the evaluator: "interpreter", "run_file", "repl";
               \* "env", "eval" when operations are applied on their own
    unit,      \* the statements of the current input unit (file or REPL line)
    pc,        \* index in unit of the next statement to execute
    envs,      \* the heap of environments
    out,       \* the lines written to standard output
    status,    \* "scanning", "parsing", "running", "done", "error" (run returned Err),
               \* "panic" (the process aborted)
    diag,      \* the Err string Interpreter::run returned, or the panic's payload
    failed,    \* some statement of the current unit has returned Err
    lines,     \* number of input units read so far
    now,       \* the wall clock, in seconds
    unitStart, \* sizes of envs and out when the current unit started
    last,      \* the last environment operation applied and the heap before it
    scanner,   \* the Scanner of the current input unit
    parser     \* the Parser of the current input unit

vars ==
    <<mode, unit, pc, envs, out, status, diag, failed, lines, now, unitStart, last,
      scanner, parser>>

---------------------------------------------------------------------------
(* Bounds of the model *)

MaxDepth == 8      \* budget of nested calls and loop iterations of one evaluation
MaxCalls == 3      \* calls of the returned closure in the counter program
MaxLines == 2      \* input units the REPL reads
MaxClock == 1      \* the wall clock runs from 0 to MaxClock
MaxEnvs == 2       \* environments on the heap when environment operations are explored
MaxNumeral == 3    \* strings "0" .. "MaxNumeral" are the numerals str::parse::<f64> is given
MaxRecursion == 2  \* the recursive program counts down from MaxRecursion

---------------------------------------------------------------------------
(* Values: enum Value *)

Nil == [t |-> "Nil"]
BoolV(b) == [t |-> "Boolean", b |-> b]
NumV(n) == [t |-> "Number", n |-> n]
StrV(s) == [t |-> "String", s |-> s]
FunV(name, parameters, body, closure) ==
    [t |-> "Function", name |-> name, parameters |-> parameters,
     body |-> body, closure |-> closure]
NativeV(f) == [t |-> "NativeFunction", f |-> f]

\* impl fmt::Display for Value
Display(v) ==
    CASE v.t = "Boolean" -> IF v.b THEN "true" ELSE "false"
      [] v.t = "Nil" -> "nil"
      [] v.t = "Number" -> ToString(v.n)
      [] v.t = "String" -> v.s
      [] v.t = "Function" -> "<fn " \o v.name \o ">"
      [] v.t = "NativeFunction" -> "<native fn " \o v.f \o ">"

\* #[derive(PartialEq)] on Value, with impl PartialEq for Function (the names)
ValueEq(l, r) ==
    /\ l.t = r.t
    /\ CASE l.t = "Boolean" -> l.b = r.b
         [] l.t = "Nil" -> TRUE
         [] l.t = "Number" -> l.n = r.n
         [] l.t = "String" -> l.s = r.s
         [] l.t = "Function" -> l.name = r.name
         [] l.t = "NativeFunction" -> l.f = r.f

\* Value::to_boolean
to_boolean(v) ==
    CASE v.t = "Boolean" -> v.b
      [] v.t = "Nil" -> FALSE
      [] v.t = "Number" -> v.n # 0
      [] v.t = "String" -> v.s # ""
      [] v.t = "Function" -> TRUE
      [] v.t = "NativeFunction" -> TRUE

\* str::parse::<f64> on the strings of the modelled programs: a numeral parses,
\* any other string is a ParseFloatError
Parses(s) == \E n \in 0..MaxNumeral : ToString(n) = s
ParseF64(s) == CHOOSE n \in 0..MaxNumeral : ToString(n) = s

\* Value::to_number; "Panic" is the unwrap of a failed parse
to_number(v) ==
    CASE v.t = "Boolean" -> [kind |-> "Ok", n |-> IF v.b THEN 1 ELSE 0, msg |-> ""]
      [] v.t = "Nil" -> [kind |-> "Ok", n |-> 0, msg |-> ""]
      [] v.t = "Number" -> [kind |-> "Ok", n |-> v.n, msg |-> ""]
      [] v.t = "String" ->
            IF Parses(v.s) THEN [kind |-> "Ok", n |-> ParseF64(v.s), msg |-> ""]
            ELSE [kind |-> "Panic", n |-> 0, msg |-> "ParseFloatError"]
      [] v.t = "Function" ->
            [kind |-> "Err", n |-> 0, msg |-> "Cannot convert function to number."]
      [] v.t = "NativeFunction" ->
            [kind |-> "Err", n |-> 0, msg |-> "Cannot convert native function to number."]

---------------------------------------------------------------------------
(* Environment: src/src/environment.rs *)

NoEnv == 0                               \* enclosing: None
EmptyValues == [n \in {} |-> Nil]        \* HashMap::new()

\* Environment::new, allocated on the heap h
EnvironmentNew(h) == Append(h, [enclosing |-> NoEnv, values |-> EmptyValues])

\* Environment::new_enclosed; the new environment's identity is Len of the result
new_enclosed(h, enclosing) ==
    Append(h, [enclosing |-> enclosing, values |-> EmptyValues])

\* HashMap::insert
Insert(values, name, value) ==
    [n \in DOMAIN values \cup {name} |-> IF n = name THEN value ELSE values[n]]

\* A plausible slip of define: the binding is made in the outermost scope
RECURSIVE defineInRoot(_, _, _, _)
defineInRoot(h, id, name, value) ==
    IF h[id].enclosing # NoEnv THEN defineInRoot(h, h[id].enclosing, name, value)
    ELSE [h EXCEPT ![id].values = Insert(@, name, value)]

\* Environment::define on environment id
define(h, id, name, value) ==
    [h EXCEPT ![id].values = Insert(@, name, value)]

UndefinedVariable(name) == "Undefined variable '" \o name \o "'."

RECURSIVE get(_, _, _)
RECURSIVE assign(_, _, _, _)

\* A plausible slip of get: the enclosing scopes are searched before the current one
getOutermostFirst(h, id, name) ==
    LET outer == IF h[id].enclosing # NoEnv
                 THEN get(h, h[id].enclosing, name)
                 ELSE [ok |-> FALSE, val |-> Nil, msg |-> UndefinedVariable(name)]
    IN  IF outer.ok THEN outer
        ELSE IF name \in DOMAIN h[id].values
             THEN [ok |-> TRUE, val |-> h[id].values[name], msg |-> ""]
             ELSE outer

\* Environment::get
get(h, id, name) ==
    IF name \in DOMAIN h[id].values
    THEN [ok |-> TRUE, val |-> h[id].values[name], msg |-> ""]
    ELSE IF h[id].enclosing # NoEnv
         THEN get(h, h[id].enclosing, name)
         ELSE [ok |-> FALSE, val |-> Nil, msg |-> UndefinedVariable(name)]

\* A plausible slip of assign: the write always lands in the current scope
assignInCurrentScope(h, id, name, value) ==
    IF get(h, id, name).ok
    THEN [ok |-> TRUE, envs |-> define(h, id, name, value), msg |-> ""]
    ELSE [ok |-> FALSE, envs |-> h, msg |-> UndefinedVariable(name)]

\* A plausible slip of assign: an unbound name becomes a binding of the outermost scope
assignImplicitGlobal(h, id, name, value) ==
    IF name \in DOMAIN h[id].values
    THEN [ok |-> TRUE, envs |-> define(h, id, name, value), msg |-> ""]
    ELSE IF h[id].enclosing # NoEnv
         THEN assign(h, h[id].enclosing, name, value)
         ELSE [ok |-> TRUE, envs |-> define(h, id, name, value), msg |-> ""]

\* Environment::assign
assign(h, id, name, value) ==
    IF name \in DOMAIN h[id].values
    THEN [ok |-> TRUE, envs |-> [h EXCEPT ![id].values = Insert(@, name, value)], msg |-> ""]
    ELSE IF h[id].enclosing # NoEnv
         THEN assign(h, h[id].enclosing, name, value)
         ELSE [ok |-> FALSE, envs |-> h, msg |-> UndefinedVariable(name)]

---------------------------------------------------------------------------
(* The syntax trees: enum Expr, enum Stmt.  An Option is a sequence of     *)
(* length 0 (None) or 1 (Some).  A Token is its lexeme, an operator Token  *)
(* the name of its TokenType.                                              *)

None == <<>>
Some(x) == <<x>>

Literal(value) == [k |-> "Literal", value |-> value]
Variable(name) == [k |-> "Variable", name |-> name]
Assign(name, value) == [k |-> "Assign", name |-> name, value |-> value]
Binary(left, operator, right) ==
    [k |-> "Binary", left |-> left, operator |-> operator, right |-> right]
Logical(left, operator, right) ==
    [k |-> "Logical", left |-> left, operator |-> operator, right |-> right]
Unary(operator, right) == [k |-> "Unary", operator |-> operator, right |-> right]
Grouping(expr) == [k |-> "Grouping", expr |-> expr]
Call(callee, arguments) == [k |-> "Call", callee |-> callee, arguments |-> arguments]

ExpressionStmt(expr) == [k |-> "Expression", expr |-> expr]
PrintStmt(expr) == [k |-> "Print", expr |-> expr]
VarStmt(name, initializer) == [k |-> "Var", name |-> name, initializer |-> initializer]
BlockStmt(statements) == [k |-> "Block", statements |-> statements]
IfStmt(condition, then_branch, else_branch) ==
    [k |-> "If", condition |-> condition, then_branch |-> then_branch,
     else_branch |-> else_branch]
WhileStmt(condition, body) == [k |-> "While", condition |-> condition, body |-> body]
FunctionStmt(name, parameters, body) ==
    [k |-> "Function", name |-> name, parameters |-> parameters, body |-> body]
ReturnStmt(value) == [k |-> "Return", value |-> value]

---------------------------------------------------------------------------
(* Results of an evaluation: Result<Value, String>, or the panic that      *)
(* aborts the process, with the heap and the output the evaluation leaves. *)
(* "Diverge" is an evaluation that exhausts MaxDepth.                      *)

Ok(v, h, o) == [kind |-> "Ok", val |-> v, msg |-> "", envs |-> h, out |-> o]
Err(m, h, o) == [kind |-> "Err", val |-> Nil, msg |-> m, envs |-> h, out |-> o]
Panic(m, h, o) == [kind |-> "Panic", val |-> Nil, msg |-> m, envs |-> h, out |-> o]
Diverge(h, o) == [kind |-> "Diverge", val |-> Nil, msg |-> "", envs |-> h, out |-> o]

\* Result::unwrap: an Err becomes a panic
Unwrap(r) == IF r.kind = "Err" THEN Panic(r.msg, r.envs, r.out) ELSE r

ArityMismatch(expected, got) ==
    "Expected " \o ToString(expected) \o " arguments but got " \o ToString(got) \o "."

NotCallable == "Can only call functions and classes."

\* NativeFunction::arity
NativeArity(f) == CASE f = "Clock" -> 0

\* NativeFunction::call: Clock reads the wall clock.  The Interpreter::new() the
\* call site passes is dropped unused; its two environments are not kept on the heap.
NativeCall(f, arguments, h, o) == CASE f = "Clock" -> Ok(NumV(now), h, o)

\* `let r = v; body(r)`: v is evaluated once and body applied to its value
Bind(v, body(_)) == CHOOSE x \in {body(r) : r \in {v}} : TRUE

\* The `?` on a to_number of a binary or unary operand: its Err is returned,
\* and a panic inside it aborts
AsNumber(v, h, o, body(_)) ==
    Bind(to_number(v), LAMBDA r :
        IF r.kind = "Err" THEN Err(r.msg, h, o)
        ELSE IF r.kind = "Panic" THEN Panic(r.msg, h, o)
        ELSE body(r.n))

\* Expr::evaluate, the operator dispatch of Expr::Binary (both operands evaluated).
\* The arithmetic of the modelled programs is +, -, * and the comparisons; the
\* f64 division of Slash is outside the integers of the model and no modelled
\* program uses it.
BinaryOp(operator, left, right, h, o) ==
    IF operator \in {"Minus", "Plus", "Star", "Greater", "GreaterEqual", "Less", "LessEqual"}
    THEN AsNumber(left, h, o, LAMBDA l :
         AsNumber(right, h, o, LAMBDA r :
             CASE operator = "Minus" -> Ok(NumV(l - r), h, o)
               [] operator = "Plus" -> Ok(NumV(l + r), h, o)
               [] operator = "Star" -> Ok(NumV(l * r), h, o)
               [] operator = "Greater" -> Ok(BoolV(l > r), h, o)
               [] operator = "GreaterEqual" -> Ok(BoolV(l >= r), h, o)
               [] operator = "Less" -> Ok(BoolV(l < r), h, o)
               [] operator = "LessEqual" -> Ok(BoolV(l <= r), h, o)))
    ELSE IF operator = "BangEqual" THEN Ok(BoolV(~ValueEq(left, right)), h, o)
    ELSE Panic("Unexpected operator " \o operator, h, o)

\* Expr::evaluate, Expr::Unary after its operand is evaluated
UnaryOp(operator, right, h, o) ==
    IF operator = "Minus" THEN AsNumber(right, h, o, LAMBDA r : Ok(NumV(0 - r), h, o))
    ELSE IF operator = "Bang" THEN Ok(BoolV(~to_boolean(right)), h, o)
    ELSE Panic("Unexpected operator " \o operator, h, o)

\* A plausible slip of the call: the new environment encloses the caller's
CallEnclosingCaller(function, caller) == caller

\* The environment a user-function call runs in encloses the function's closure
CallEnclosing(function, caller) == function.closure

\* The for loop that binds the parameters in the call's environment
RECURSIVE BindParameters(_, _, _, _, _)
BindParameters(h, environment, parameters, arguments, i) ==
    IF i > Len(parameters) \/ i > Len(arguments) THEN h
    ELSE BindParameters(define(h, environment, parameters[i], arguments[i]),
                        environment, parameters, arguments, i + 1)

\* The environment Stmt::Function captures as the closure
FunctionClosure(env) == env

\* The environment the statements of a Block run in
BlockEnvironment(h, env) == new_enclosed(h, env)

\* What a Return statement makes of its value: the Err it returns
ReturnSignal(value, h, o) == Err(Display(value), h, o)

RECURSIVE EvalExpr(_, _, _, _, _)
RECURSIVE EvalStmt(_, _, _, _, _)
RECURSIVE EvalArguments(_, _, _, _, _, _, _)
RECURSIVE ExecStatements(_, _, _, _, _, _)
RECURSIVE ExecWhile(_, _, _, _, _)
RECURSIVE CallBody(_, _, _, _, _, _)
RECURSIVE CallFunction(_, _, _, _, _, _)

\* The `?` on an evaluation: anything but Ok is returned as it is
Try(r, body(_)) == Bind(r, LAMBDA x : IF x.kind # "Ok" THEN x ELSE body(x))

\* Expr::evaluate: expression e in environment env, on heap h with output o
EvalExpr(e, env, h, o, d) ==
    CASE e.k = "Assign" ->
            Try(EvalExpr(e.value, env, h, o, d), LAMBDA value :
            Bind(assign(value.envs, env, e.name, value.val), LAMBDA a :
                IF a.ok THEN Ok(value.val, a.envs, value.out)
                ELSE Err(a.msg, value.envs, value.out)))
      [] e.k = "Binary" ->
            Try(EvalExpr(e.left, env, h, o, d), LAMBDA left :
            Try(EvalExpr(e.right, env, left.envs, left.out, d), LAMBDA right :
                BinaryOp(e.operator, left.val, right.val, right.envs, right.out)))
      [] e.k = "Call" ->
            Try(EvalExpr(e.callee, env, h, o, d), LAMBDA calee :
            Try(EvalArguments(e.arguments, 1, <<>>, env, calee.envs, calee.out, d),
                LAMBDA args :
                CallFunction(calee.val, args.val, env, args.envs, args.out, d)))
      [] e.k = "Grouping" -> EvalExpr(e.expr, env, h, o, d)
      [] e.k = "Literal" -> Ok(e.value, h, o)
      [] e.k = "Logical" ->
            Try(EvalExpr(e.left, env, h, o, d), LAMBDA left :
                IF e.operator = "And"
                THEN IF ~to_boolean(left.val) THEN left
                     ELSE EvalExpr(e.right, env, left.envs, left.out, d)
                ELSE IF e.operator = "Or"
                THEN IF to_boolean(left.val) THEN left
                     ELSE EvalExpr(e.right, env, left.envs, left.out, d)
                ELSE Panic("Unexpected operator " \o e.operator, left.envs, left.out))
      [] e.k = "Unary" ->
            Try(EvalExpr(e.right, env, h, o, d), LAMBDA right :
                UnaryOp(e.operator, right.val, right.envs, right.out))
      [] e.k = "Variable" ->
            Bind(get(h, env, e.name), LAMBDA g :
                IF g.ok THEN Ok(g.val, h, o) ELSE Err(g.msg, h, o))

\* A plausible slip of the argument loop: the arguments are evaluated last to first
EvalArgumentsRightToLeft(arguments, i, evaluated_arguments, env, h, o, d) ==
    IF i > Len(arguments) THEN Ok(evaluated_arguments, h, o)
    ELSE Try(EvalExpr(arguments[Len(arguments) - i + 1], env, h, o, d), LAMBDA a :
             EvalArguments(arguments, i + 1, <<a.val>> \o evaluated_arguments,
                           env, a.envs, a.out, d))

\* Expr::evaluate, Expr::Call: the arguments, left to right, from the i-th on
EvalArguments(arguments, i, evaluated_arguments, env, h, o, d) ==
    IF i > Len(arguments) THEN Ok(evaluated_arguments, h, o)
    ELSE Try(EvalExpr(arguments[i], env, h, o, d), LAMBDA a :
             EvalArguments(arguments, i + 1, Append(evaluated_arguments, a.val),
                           env, a.envs, a.out, d))

\* A plausible slip of the call: the arity of a user function is checked after
\* the call's environment is made and the parameters are bound
CallFunctionLateCheck(calee, evaluated_arguments, env, h, o, d) ==
    CASE calee.t = "Function" ->
            Bind(new_enclosed(h, CallEnclosing(calee, env)), LAMBDA h1 :
            Bind(BindParameters(h1, Len(h1), calee.parameters,
                                evaluated_arguments, 1), LAMBDA h2 :
                IF Len(calee.parameters) # Len(evaluated_arguments)
                THEN Err(ArityMismatch(Len(calee.parameters), Len(evaluated_arguments)), h2, o)
                ELSE IF d = 0 THEN Diverge(h2, o)
                ELSE CallBody(calee.body, 1, Len(h1), h2, o, d - 1)))
      [] calee.t = "NativeFunction" ->
            IF NativeArity(calee.f) # Len(evaluated_arguments)
            THEN Err(ArityMismatch(NativeArity(calee.f), Len(evaluated_arguments)), h, o)
            ELSE NativeCall(calee.f, evaluated_arguments, h, o)
      [] OTHER -> Err(NotCallable, h, o)

\* Expr::evaluate, Expr::Call: the match on the evaluated callee
CallFunction(calee, evaluated_arguments, env, h, o, d) ==
    CASE calee.t = "Function" ->
            IF Len(calee.parameters) # Len(evaluated_arguments)
            THEN Err(ArityMismatch(Len(calee.parameters), Len(evaluated_arguments)), h, o)
            ELSE IF d = 0 THEN Diverge(h, o)
            ELSE Bind(new_enclosed(h, CallEnclosing(calee, env)), LAMBDA h1 :
                 Bind(BindParameters(h1, Len(h1), calee.parameters,
                                     evaluated_arguments, 1), LAMBDA h2 :
                     CallBody(calee.body, 1, Len(h1), h2, o, d - 1)))
      [] calee.t = "NativeFunction" ->
            IF NativeArity(calee.f) # Len(evaluated_arguments)
            THEN Err(ArityMismatch(NativeArity(calee.f), Len(evaluated_arguments)), h, o)
            ELSE NativeCall(calee.f, evaluated_arguments, h, o)
      [] OTHER -> Err(NotCallable, h, o)

\* Expr::evaluate, Expr::Call: the loop over the statements of the body.  Only a
\* Return that is itself a statement of the body is matched; every other
\* statement is evaluated and its Result unwrapped.
CallBody(body, i, environment, h, o, d) ==
    IF i > Len(body) THEN Ok(Nil, h, o)
    ELSE IF body[i].k = "Return"
    THEN IF body[i].value # None
         THEN Bind(EvalExpr(body[i].value[1], environment, h, o, d), LAMBDA r : Unwrap(r))
         ELSE Ok(Nil, h, o)
    ELSE Bind(EvalStmt(body[i], environment, h, o, d), LAMBDA r :
              IF r.kind # "Ok" THEN Unwrap(r)
              ELSE CallBody(body, i + 1, environment, r.envs, r.out, d))

\* Stmt::evaluate: statement s in environment env
EvalStmt(s, env, h, o, d) ==
    CASE s.k = "Expression" ->
            Try(EvalExpr(s.expr, env, h, o, d), LAMBDA r : Ok(Nil, r.envs, r.out))
      [] s.k = "If" ->
            Try(EvalExpr(s.condition, env, h, o, d), LAMBDA c :
                IF to_boolean(c.val)
                THEN EvalStmt(s.then_branch, env, c.envs, c.out, d)
                ELSE IF s.else_branch # None
                THEN EvalStmt(s.else_branch[1], env, c.envs, c.out, d)
                ELSE Ok(Nil, c.envs, c.out))
      [] s.k = "Function" ->
            Ok(Nil,
               define(h, env, s.name,
                      FunV(s.name, s.parameters, s.body, FunctionClosure(env))),
               o)
      [] s.k = "Print" ->
            Try(EvalExpr(s.expr, env, h, o, d), LAMBDA r :
                Ok(Nil, r.envs, Append(r.out, Display(r.val))))
      [] s.k = "Return" ->
            IF s.value # None
            THEN Try(EvalExpr(s.value[1], env, h, o, d), LAMBDA value :
                     ReturnSignal(value.val, value.envs, value.out))
            ELSE ReturnSignal(Nil, h, o)
      [] s.k = "Block" ->
            Bind(BlockEnvironment(h, env), LAMBDA h1 :
                ExecStatements(s.statements, 1, Len(h1), h1, o, d))
      [] s.k = "Var" ->
            IF s.initializer # None
            THEN Try(EvalExpr(s.initializer[1], env, h, o, d), LAMBDA value :
                     Ok(Nil, define(value.envs, env, s.name, value.val), value.out))
            ELSE Ok(Nil, define(h, env, s.name, Nil), o)
      [] s.k = "While" -> ExecWhile(s, env, h, o, d)

\* Stmt::evaluate, Stmt::Block: the statements in order, from the i-th on
ExecStatements(statements, i, environment, h, o, d) ==
    IF i > Len(statements) THEN Ok(Nil, h, o)
    ELSE Try(EvalStmt(statements[i], environment, h, o, d), LAMBDA r :
             ExecStatements(statements, i + 1, environment, r.envs, r.out, d))

\* Stmt::evaluate, Stmt::While: the loop
ExecWhile(s, env, h, o, d) ==
    Try(EvalExpr(s.condition, env, h, o, d), LAMBDA c :
        IF ~to_boolean(c.val) THEN Ok(Nil, c.envs, c.out)
        ELSE IF d = 0 THEN Diverge(c.envs, c.out)
        ELSE Try(EvalStmt(s.body, env, c.envs, c.out, d), LAMBDA b :
                 ExecWhile(s, env, b.envs, b.out, d - 1)))

---------------------------------------------------------------------------
(* The input units the model runs, as the parser returns them *)

Num(n) == Literal(NumV(n))
True == Literal(BoolV(TRUE))

\* fun f() { var c = 0; fun g() { c = c + 1; return c; } return g; }
\* var h = f(); print h(); ... print h();
CounterProgram ==
    << FunctionStmt("f", <<>>,
         << VarStmt("c", Some(Num(0))),
            FunctionStmt("g", <<>>,
              << ExpressionStmt(Assign("c", Binary(Variable("c"), "Plus", Num(1)))),
                 ReturnStmt(Some(Variable("c"))) >>),
            ReturnStmt(Some(Variable("g"))) >>),
       VarStmt("h", Some(Call(Variable("f"), <<>>))) >>
    \o [i \in 1..MaxCalls |-> PrintStmt(Call(Variable("h"), <<>>))]

\* return 1; nested in a Block, an If or a While
NestedReturn(nesting) ==
    CASE nesting = "Block" -> BlockStmt(<< ReturnStmt(Some(Num(1))) >>)
      [] nesting = "If" -> IfStmt(True, ReturnStmt(Some(Num(1))), None)
      [] nesting = "While" -> WhileStmt(True, ReturnStmt(Some(Num(1))))

Nestings == {"Block", "If", "While"}

\* fun n() { <return 1; nested> print 2; } print n(); print 3;
NestedReturnProgram(nesting) ==
    << FunctionStmt("n", <<>>, << NestedReturn(nesting), PrintStmt(Num(2)) >>),
       PrintStmt(Call(Variable("n"), <<>>)),
       PrintStmt(Num(3)) >>

\* fun r() { return 1; print 2; } print r(); print 3;
DirectReturnProgram ==
    << FunctionStmt("r", <<>>, << ReturnStmt(Some(Num(1))), PrintStmt(Num(2)) >>),
       PrintStmt(Call(Variable("r"), <<>>)),
       PrintStmt(Num(3)) >>

\* print 1; return 7; print 2;
TopLevelReturnProgram ==
    << PrintStmt(Num(1)), ReturnStmt(Some(Num(7))), PrintStmt(Num(2)) >>

\* var x = 1; fun show() { print x; } fun caller(x) { show(); } caller(2); print x;
LexicalProgram ==
    << VarStmt("x", Some(Num(1))),
       FunctionStmt("show", <<>>, << PrintStmt(Variable("x")) >>),
       FunctionStmt("caller", <<"x">>, << ExpressionStmt(Call(Variable("show"), <<>>)) >>),
       ExpressionStmt(Call(Variable("caller"), << Num(2) >>)),
       PrintStmt(Variable("x")) >>

\* var a = 1; { var a = 2; print a; } print a;
ShadowProgram ==
    << VarStmt("a", Some(Num(1))),
       BlockStmt(<< VarStmt("a", Some(Num(2))), PrintStmt(Variable("a")) >>),
       PrintStmt(Variable("a")) >>

\* var x = 1; { var y = 5; { x = 2; } print x; } print x;
AssignNestedProgram ==
    << VarStmt("x", Some(Num(1))),
       BlockStmt(<< VarStmt("y", Some(Num(5))),
                    BlockStmt(<< ExpressionStmt(Assign("x", Num(2))) >>),
                    PrintStmt(Variable("x")) >>),
       PrintStmt(Variable("x")) >>

\* print 1; u = 1; print 2;
UndefinedAssignProgram ==
    << PrintStmt(Num(1)), ExpressionStmt(Assign("u", Num(1))), PrintStmt(Num(2)) >>

\* print v; print 2;
UndefinedReadProgram ==
    << PrintStmt(Variable("v")), PrintStmt(Num(2)) >>

\* A statement that fails with a runtime error
FailingStmt(failure) ==
    CASE failure = "undefined" -> PrintStmt(Variable("q"))
      [] failure = "not callable" -> ExpressionStmt(Call(Num(1), <<>>))
      [] failure = "arity" -> ExpressionStmt(Call(Variable("e"), << Num(1) >>))

Failures == {"undefined", "not callable", "arity"}

\* fun e() { <failing statement> } e(); print 1;
ErrorInFunctionProgram(failure) ==
    << FunctionStmt("e", <<>>, << FailingStmt(failure) >>),
       ExpressionStmt(Call(Variable("e"), <<>>)),
       PrintStmt(Num(1)) >>

\* print clock(); print clock(1);
ClockProgram ==
    << PrintStmt(Call(Variable("clock"), <<>>)),
       PrintStmt(Call(Variable("clock"), << Num(1) >>)) >>

\* var i = 0; while (i < 2) { print i; i = i + 1; } print "end";
WhileProgram ==
    << VarStmt("i", Some(Num(0))),
       WhileStmt(Binary(Variable("i"), "Less", Num(2)),
                 BlockStmt(<< PrintStmt(Variable("i")),
                              ExpressionStmt(Assign("i", Binary(Variable("i"), "Plus",
                                                                Num(1)))) >>)),
       PrintStmt(Literal(StrV("end"))) >>

\* fun count(n) { if (n > 0) count(n - 1); print n; } print count(MaxRecursion);
RecursionProgram ==
    << FunctionStmt("count", <<"n">>,
         << IfStmt(Binary(Variable("n"), "Greater", Num(0)),
                   ExpressionStmt(Call(Variable("count"),
                                       << Binary(Variable("n"), "Minus", Num(1)) >>)),
                   None),
            PrintStmt(Variable("n")) >>),
       PrintStmt(Call(Variable("count"), << Num(MaxRecursion) >>)) >>

Programs ==
    {RecursionProgram, CounterProgram, DirectReturnProgram, TopLevelReturnProgram, LexicalProgram,
     ShadowProgram, AssignNestedProgram, UndefinedAssignProgram, UndefinedReadProgram,
     ClockProgram, WhileProgram}
    \cup {NestedReturnProgram(nesting) : nesting \in Nestings}
    \cup {ErrorInFunctionProgram(failure) : failure \in Failures}

---------------------------------------------------------------------------
(* The loops that drive the evaluator *)

\* Interpreter::new: globals, holding clock, and the environment enclosed by them
InterpreterNew ==
    LET globals == EnvironmentNew(<<>>)
        environment == new_enclosed(globals, Len(globals))
    IN  define(environment, Len(globals), "clock", NativeV("Clock"))

\* The environment the top-level statements run in: Interpreter's environment,
\* or the Environment::new() of run_file and repl
TopEnv == IF mode = "interpreter" THEN Len(InterpreterNew) ELSE Len(EnvironmentNew(<<>>))

\* No source is scanned or parsed: the statements are given as the parser returns them
NoScanner == [source |-> <<>>, tokens |-> <<>>, start |-> 0, current |-> 0, line |-> 1]
NoParser == [tokens |-> <<>>, current |-> 0]

NoOp ==
    [op |-> "none", env |-> NoEnv, name |-> "", val |-> Nil, kind |-> "Ok",
     res |-> Nil, msg |-> "", pre |-> <<>>]

Init ==
    /\ mode \in {"interpreter", "run_file", "repl"}
    /\ unit \in Programs
    /\ pc = 1
    /\ envs = IF mode = "interpreter" THEN InterpreterNew ELSE EnvironmentNew(<<>>)
    /\ out = <<>>
    /\ status = "running"
    /\ diag = ""
    /\ failed = FALSE
    /\ lines = 1
    /\ now = 0
    /\ unitStart = [envs |-> Len(envs), out |-> 0]
    /\ last = NoOp
    /\ scanner = NoScanner
    /\ parser = NoParser

\* What the `?` of Interpreter::run does with the Result of a statement
RunPropagates(r) == r.kind = "Err"

\* Interpreter::run: one iteration of `for statement in statements`
InterpreterRun ==
    /\ mode = "interpreter"
    /\ status = "running"
    /\ \E r \in {EvalStmt(unit[pc], TopEnv, envs, out, MaxDepth)} :
           /\ envs' = r.envs
           /\ out' = r.out
           /\ pc' = IF r.kind = "Ok" \/ (r.kind = "Err" /\ ~RunPropagates(r))
                    THEN pc + 1 ELSE pc
           /\ status' = CASE r.kind = "Ok" \/ (r.kind = "Err" /\ ~RunPropagates(r)) ->
                                 IF pc + 1 > Len(unit) THEN "done" ELSE "running"
                          [] r.kind = "Err" /\ RunPropagates(r) -> "error"
                          [] r.kind = "Panic" -> "panic"
                          [] r.kind = "Diverge" -> "diverge"
           /\ diag' = IF r.kind \in {"Err", "Panic"} THEN r.msg ELSE diag
           /\ failed' = (failed \/ r.kind = "Err")
    /\ UNCHANGED <<mode, scanner, parser, unit, lines, now, unitStart, last>>

\* run_file and repl: one iteration of `for statement in statements`, whose
\* match prints the error of a failed statement and goes on with the next one
StatementLoop ==
    \E r \in {EvalStmt(unit[pc], TopEnv, envs, out, MaxDepth)} :
        /\ envs' = r.envs
        /\ out' = IF r.kind = "Err" THEN Append(r.out, r.msg) ELSE r.out
        /\ pc' = IF r.kind \in {"Ok", "Err"} THEN pc + 1 ELSE pc
        /\ status' = CASE r.kind \in {"Ok", "Err"} ->
                              IF pc + 1 > Len(unit) THEN "done" ELSE "running"
                       [] r.kind = "Panic" -> "panic"
                       [] r.kind = "Diverge" -> "diverge"
        /\ diag' = IF r.kind = "Panic" THEN r.msg ELSE diag
        /\ failed' = (failed \/ r.kind = "Err")

\* run_file
RunFile ==
    /\ mode = "run_file"
    /\ status = "running"
    /\ StatementLoop
    /\ UNCHANGED <<mode, scanner, parser, unit, lines, now, unitStart, last>>

\* repl: a statement of the line read
Repl ==
    /\ mode = "repl"
    /\ status = "running"
    /\ StatementLoop
    /\ UNCHANGED <<mode, scanner, parser, unit, lines, now, unitStart, last>>

\* repl: rl.readline returns the next line; the environment is kept
ReplReadLine ==
    /\ mode = "repl"
    /\ status = "done"
    /\ lines < MaxLines
    /\ \E line \in Programs : unit' = line
    /\ pc' = 1
    /\ status' = "running"
    /\ failed' = FALSE
    /\ lines' = lines + 1
    /\ unitStart' = [envs |-> Len(envs), out |-> Len(out)]
    /\ UNCHANGED <<mode, scanner, parser, envs, out, diag, now, last>>

\* Time passes
Tick ==
    /\ mode # "env"
    /\ now < MaxClock
    /\ now' = now + 1
    /\ UNCHANGED <<mode, scanner, parser, unit, pc, envs, out, status, diag, failed, lines, unitStart, last>>

Next == InterpreterRun \/ RunFile \/ Repl \/ ReplReadLine \/ Tick

Spec == Init /\ [][Next]_vars

---------------------------------------------------------------------------
(* The environment operations on their own: get, assign and define reached *)
(* through the Variable, Assign and Var nodes that call them, in any       *)
(* environment of any heap of at most MaxEnvs environments.                *)

Names == {"a", "b"}
EnvValues == {NumV(1), NumV(2)}

InitEnv ==
    /\ mode = "env"
    /\ unit = <<>>
    /\ pc = 1
    /\ envs = EnvironmentNew(<<>>)
    /\ out = <<>>
    /\ status = "running"
    /\ diag = ""
    /\ failed = FALSE
    /\ lines = 1
    /\ now = 0
    /\ unitStart = [envs |-> Len(envs), out |-> 0]
    /\ last = NoOp
    /\ scanner = NoScanner
    /\ parser = NoParser

Applied(op, env, name, val, r) ==
    [op |-> op, env |-> env, name |-> name, val |-> val, kind |-> r.kind,
     res |-> r.val, msg |-> r.msg, pre |-> envs]

\* Environment::new_enclosed(enclosing)
EnvNewEnclosed ==
    /\ Len(envs) < MaxEnvs
    /\ \E enclosing \in DOMAIN envs :
          /\ envs' = new_enclosed(envs, enclosing)
          /\ last' = Applied("new_enclosed", enclosing, "", Nil, Ok(Nil, envs, out))
    /\ UNCHANGED <<mode, scanner, parser, unit, pc, out, status, diag, failed, lines, now, unitStart>>

\* var name = value; in environment env
EnvDefine ==
    /\ \E env \in DOMAIN envs, name \in Names, value \in EnvValues :
       \E r \in {EvalStmt(VarStmt(name, Some(Literal(value))), env, envs, out, MaxDepth)} :
          /\ envs' = r.envs
          /\ last' = Applied("define", env, name, value, r)
    /\ UNCHANGED <<mode, scanner, parser, unit, pc, out, status, diag, failed, lines, now, unitStart>>

\* name = value in environment env
EnvAssign ==
    /\ \E env \in DOMAIN envs, name \in Names, value \in EnvValues :
       \E r \in {EvalExpr(Assign(name, Literal(value)), env, envs, out, MaxDepth)} :
          /\ envs' = r.envs
          /\ last' = Applied("assign", env, name, value, r)
    /\ UNCHANGED <<mode, scanner, parser, unit, pc, out, status, diag, failed, lines, now, unitStart>>

\* name read in environment env
EnvGet ==
    /\ \E env \in DOMAIN envs, name \in Names :
       \E r \in {EvalExpr(Variable(name), env, envs, out, MaxDepth)} :
          /\ envs' = r.envs
          /\ last' = Applied("get", env, name, Nil, r)
    /\ UNCHANGED <<mode, scanner, parser, unit, pc, out, status, diag, failed, lines, now, unitStart>>

NextEnv == EnvNewEnclosed \/ EnvDefine \/ EnvAssign \/ EnvGet

SpecEnv == InitEnv /\ [][NextEnv]_vars

---------------------------------------------------------------------------
(* Single expressions and statements applied to operands of every variant: *)
(* the operands are the values of the variables l and r of one top-level   *)
(* environment, which also binds e (written by the side effects of the     *)
(* operand and argument expressions), the user functions f0, f1, f2 of     *)
(* arity 0, 1, 2 and the native clock.  One node is evaluated per run.     *)

MaxArgs == 2       \* a call is given 0 .. MaxArgs arguments

\* fun u() {}, declared at the top level
UserFunction == FunV("u", <<>>, <<>>, 1)

Operands ==
    {Nil, BoolV(TRUE), BoolV(FALSE), NumV(0), NumV(1), StrV(""), StrV("a"), StrV("1"),
     UserFunction, NativeV("Clock")}

Unevaluated == StrV("unevaluated")

Str(s) == Literal(StrV(s))

\* fun f0() { print "body"; }  fun f1(p) { print "body"; }  fun f2(p, q) { print "body"; }
Callee(name) ==
    FunV(name,
         CASE name = "f0" -> <<>> [] name = "f1" -> <<"p">> [] name = "f2" -> <<"p", "q">>,
         << PrintStmt(Str("body")) >>, 1)

Callees == {"l", "f0", "f1", "f2", "clock"}

EvalNames == {"l", "r", "e", "f0", "f1", "f2", "clock"}

InitEval ==
    /\ mode = "eval"
    /\ unit = <<>>
    /\ pc = 1
    /\ \E l \in Operands, r \in Operands :
          envs = << [enclosing |-> NoEnv,
                     values |-> [n \in EvalNames |->
                                   CASE n = "l" -> l
                                     [] n = "r" -> r
                                     [] n = "e" -> Unevaluated
                                     [] n = "clock" -> NativeV("Clock")
                                     [] OTHER -> Callee(n)]] >>
    /\ out = <<>>
    /\ status = "running"
    /\ diag = ""
    /\ failed = FALSE
    /\ lines = 1
    /\ now = 0
    /\ unitStart = [envs |-> Len(envs), out |-> 0]
    /\ last = NoOp
    /\ scanner = NoScanner
    /\ parser = NoParser

\* The node is evaluated in the top-level environment and its outcome recorded
Evaluated(op, name, val, r) ==
    /\ envs' = r.envs
    /\ out' = r.out
    /\ last' = Applied(op, 1, name, val, r)
    /\ UNCHANGED <<mode, scanner, parser, unit, pc, status, diag, failed, lines, now, unitStart>>

\* if (l) print "then"; else print "else";
EvalIf ==
    /\ last.op = "none"
    /\ \E r \in {EvalStmt(IfStmt(Variable("l"), PrintStmt(Str("then")),
                                  Some(PrintStmt(Str("else")))),
                           1, envs, out, MaxDepth)} :
          Evaluated("if", "", Nil, r)

\* while (l) { print "body"; l = nil; }
EvalWhile ==
    /\ last.op = "none"
    /\ \E r \in {EvalStmt(WhileStmt(Variable("l"),
                                     BlockStmt(<< PrintStmt(Str("body")),
                                                  ExpressionStmt(Assign("l", Literal(Nil))) >>)),
                           1, envs, out, MaxDepth)} :
          Evaluated("while", "", Nil, r)

\* !l
EvalBang ==
    /\ last.op = "none"
    /\ \E r \in {EvalExpr(Unary("Bang", Variable("l")), 1, envs, out, MaxDepth)} :
          Evaluated("bang", "", Nil, r)

\* The right operand of a logical expression: (e = r), or the call f0()
RightOperand(side_effect) ==
    CASE side_effect = "assignment" -> Grouping(Assign("e", Variable("r")))
      [] side_effect = "call" -> Call(Variable("f0"), <<>>)

SideEffects == {"assignment", "call"}

\* l and <right operand>, l or <right operand>
EvalLogical ==
    /\ last.op = "none"
    /\ \E operator \in {"And", "Or"}, side_effect \in SideEffects :
       \E r \in {EvalExpr(Logical(Variable("l"), operator, RightOperand(side_effect)),
                           1, envs, out, MaxDepth)} :
          Evaluated("logical", operator, StrV(side_effect), r)

\* l + r
EvalPlus ==
    /\ last.op = "none"
    /\ \E r \in {EvalExpr(Binary(Variable("l"), "Plus", Variable("r")),
                           1, envs, out, MaxDepth)} :
          Evaluated("plus", "Plus", Nil, r)

\* l == r, l != r
EvalEquality ==
    /\ last.op = "none"
    /\ \E operator \in {"EqualEqual", "BangEqual"} :
       \E r \in {EvalExpr(Binary(Variable("l"), operator, Variable("r")),
                           1, envs, out, MaxDepth)} :
          Evaluated("equality", operator, Nil, r)

\* The arguments e = 1, e = 2, ..., e = n
CallArguments(n) == [i \in 1..n |-> Assign("e", Num(i))]

\* (e = callee)(e = 1, ..., e = n)
EvalCall ==
    /\ last.op = "none"
    /\ \E callee \in Callees, n \in 0..MaxArgs :
       \E r \in {EvalExpr(Call(Grouping(Assign("e", Variable(callee))), CallArguments(n)),
                           1, envs, out, MaxDepth)} :
          Evaluated("call", callee, NumV(n), r)

NextEval ==
    EvalIf \/ EvalWhile \/ EvalBang \/ EvalLogical \/ EvalPlus \/ EvalEquality \/ EvalCall

SpecEval == InitEval /\ [][NextEval]_vars

---------------------------------------------------------------------------
(* The scanner: struct Scanner of src/src/main.rs.  The source is a        *)
(* sequence of characters, each a string of length one; positions count    *)
(* from 0 as in the source, so the character at position i is source[i+1]. *)

MaxSource == 3     \* the sources scanned exhaustively have at most MaxSource characters

Digits == {"0", "1", "2", "3", "4", "5", "6", "7", "8", "9"}
Letters ==
    {"a", "b", "c", "d", "e", "f", "g", "h", "i", "j", "k", "l", "m",
     "n", "o", "p", "q", "r", "s", "t", "u", "v", "w", "x", "y", "z"}
NUL == "NUL"                              \* the character '\0'

\* struct Token; value is the payload of the TokenType (Identifier, String, Number)
Token(token_type, lexeme, line, value) ==
    [token_type |-> token_type, lexeme |-> lexeme, line |-> line, value |-> value]

\* self.source[from..to] as a String
RECURSIVE Slice(_, _, _)
Slice(source, from, to) ==
    IF from >= to THEN "" ELSE source[from + 1] \o Slice(source, from + 1, to)

\* str::parse of a run of digits
RECURSIVE ParseDigits(_, _, _, _)
ParseDigits(source, from, to, acc) ==
    IF from >= to THEN acc
    ELSE ParseDigits(source, from + 1, to,
                     10 * acc + (CHOOSE n \in 0..9 : ToString(n) = source[from + 1]))

\* Scanner::new
ScannerNew(source) ==
    [source |-> source, tokens |-> <<>>, start |-> 0, current |-> 0, line |-> 1]

\* Scanner::is_at_end
Scanner_is_at_end(sc) == sc.current >= Len(sc.source)

\* Scanner::advance: the scanner after it; the character returned is Consumed
Scanner_advance(sc) == [sc EXCEPT !.current = @ + 1]
Consumed(sc) == sc.source[sc.current]

\* Scanner::peek
Scanner_peek(sc) == IF Scanner_is_at_end(sc) THEN NUL ELSE sc.source[sc.current + 1]

\* Scanner::peek_next
peek_next(sc) ==
    IF sc.current + 1 >= Len(sc.source) THEN NUL ELSE sc.source[sc.current + 2]

\* Scanner::match_char: whether it matches
Matches(sc, expected) ==
    ~Scanner_is_at_end(sc) /\ sc.source[sc.current + 1] = expected

\* Scanner::match_char: the scanner after it
match_char(sc, expected) ==
    IF Matches(sc, expected) THEN [sc EXCEPT !.current = @ + 1] ELSE sc

\* Scanner::add_token
add_token(sc, token_type, value) ==
    [sc EXCEPT !.tokens =
        Append(@, Token(token_type, Slice(sc.source, sc.start, sc.current), sc.line, value))]

Scanned(sc) == [kind |-> "Ok", sc |-> sc, msg |-> ""]
ScanPanic(sc, m) == [kind |-> "Panic", sc |-> sc, msg |-> m]

\* Scanner::string: the while loop
RECURSIVE StringBody(_)
StringBody(sc) ==
    IF Scanner_peek(sc) # "\"" /\ ~Scanner_is_at_end(sc)
    THEN StringBody(Scanner_advance(
             IF Scanner_peek(sc) = "\n" THEN [sc EXCEPT !.line = @ + 1] ELSE sc))
    ELSE sc

\* Scanner::string
string(sc0) ==
    Bind(StringBody(sc0), LAMBDA sc :
        IF Scanner_is_at_end(sc)
        THEN ScanPanic(sc, "Unterminated string at line " \o ToString(sc.line))
        ELSE Bind(Scanner_advance(sc), LAMBDA closed :
                 Scanned(add_token(closed, "String",
                                   Slice(closed.source, closed.start + 1,
                                         closed.current - 1)))))

is_digit(c) == c \in Digits
is_alphabetic(c) == c \in Letters
is_alphanumeric(c) == c \in Letters \cup Digits

\* `while self.is_digit(self.peek()) { self.advance(); }`
RECURSIVE DigitRun(_)
DigitRun(sc) == IF is_digit(Scanner_peek(sc)) THEN DigitRun(Scanner_advance(sc)) ELSE sc

\* Scanner::number.  The payload is the integer the digits denote: the sources
\* of the model hold no fraction.
number(sc0) ==
    Bind(DigitRun(sc0), LAMBDA whole :
    Bind(IF Scanner_peek(whole) = "." /\ is_digit(peek_next(whole))
         THEN DigitRun(Scanner_advance(whole)) ELSE whole, LAMBDA sc :
        Scanned(add_token(sc, "Number", ParseDigits(sc.source, sc.start, sc.current, 0)))))

\* Scanner::identifier: the match of the text against the keywords
Keyword(text) ==
    CASE text = "and" -> "And"
      [] text = "class" -> "Class"
      [] text = "else" -> "Else"
      [] text = "false" -> "False"
      [] text = "for" -> "For"
      [] text = "fun" -> "Fun"
      [] text = "if" -> "If"
      [] text = "nil" -> "Nil"
      [] text = "or" -> "Or"
      [] text = "print" -> "Print"
      [] text = "return" -> "Return"
      [] text = "super" -> "Super"
      [] text = "this" -> "This"
      [] text = "true" -> "True"
      [] text = "var" -> "Var"
      [] text = "while" -> "While"
      [] OTHER -> "Identifier"

\* `while self.peek().is_alphanumeric() { self.advance(); }`
RECURSIVE AlphanumericRun(_)
AlphanumericRun(sc) ==
    IF is_alphanumeric(Scanner_peek(sc)) THEN AlphanumericRun(Scanner_advance(sc)) ELSE sc

\* Scanner::identifier
identifier(sc0) ==
    Bind(AlphanumericRun(sc0), LAMBDA sc :
    Bind(Slice(sc.source, sc.start, sc.current), LAMBDA text :
        Scanned(add_token(sc, Keyword(text),
                          IF Keyword(text) = "Identifier" THEN text ELSE ""))))

\* The `//` comment: `while self.peek() != '\n' && !self.is_at_end() { self.advance(); }`
RECURSIVE CommentBody(_)
CommentBody(sc) ==
    IF Scanner_peek(sc) # "\n" /\ ~Scanner_is_at_end(sc)
    THEN CommentBody(Scanner_advance(sc)) ELSE sc

\* The token of a one-character lexeme
SingleCharacter(c) ==
    CASE c = "(" -> "LeftParen"
      [] c = ")" -> "RightParen"
      [] c = "{" -> "LeftBrace"
      [] c = "}" -> "RightBrace"
      [] c = "," -> "Comma"
      [] c = "." -> "Dot"
      [] c = "-" -> "Minus"
      [] c = "+" -> "Plus"
      [] c = ";" -> "Semicolon"
      [] c = "*" -> "Star"

\* The token of a lexeme that `=` may extend
OneOrTwoCharacters(c, extended) ==
    CASE c = "!" -> IF extended THEN "BangEqual" ELSE "Bang"
      [] c = "=" -> IF extended THEN "EqualEqual" ELSE "Equal"
      [] c = "<" -> IF extended THEN "LessEqual" ELSE "Less"
      [] c = ">" -> IF extended THEN "GreaterEqual" ELSE "Greater"

\* Scanner::scan_token
scan_token(sc0) ==
    Bind(Scanner_advance(sc0), LAMBDA sc :
    Bind(Consumed(sc), LAMBDA c :
        IF c \in {"(", ")", "{", "}", ",", ".", "-", "+", ";", "*"}
        THEN Scanned(add_token(sc, SingleCharacter(c), ""))
        ELSE IF c \in {"!", "=", "<", ">"}
        THEN Scanned(add_token(match_char(sc, "="),
                               OneOrTwoCharacters(c, Matches(sc, "=")), ""))
        ELSE IF c = "/"
        THEN IF Matches(sc, "/") THEN Scanned(CommentBody(match_char(sc, "/")))
             ELSE Scanned(add_token(sc, "Slash", ""))
        ELSE IF c \in {" ", "\r", "\t"} THEN Scanned(sc)
        ELSE IF c = "\n" THEN Scanned([sc EXCEPT !.line = @ + 1])
        ELSE IF c = "\"" THEN string(sc)
        ELSE IF is_digit(c) THEN number(sc)
        ELSE IF is_alphabetic(c) THEN identifier(sc)
        ELSE ScanPanic(sc, "Unexpected character at line " \o ToString(sc.line))))

\* Scanner::scan_tokens: the while loop
RECURSIVE ScanLoop(_)
ScanLoop(sc) ==
    IF Scanner_is_at_end(sc) THEN Scanned(sc)
    ELSE Bind(scan_token([sc EXCEPT !.start = sc.current]), LAMBDA r :
             IF r.kind # "Ok" THEN r ELSE ScanLoop(r.sc))

\* A plausible slip of the push of Eof: its line is the line scanning began on
PushEofLineOne(sc) == [sc EXCEPT !.tokens = Append(@, Token("Eof", "", 1, ""))]

\* The push of the Eof token that ends scan_tokens
PushEof(sc) == [sc EXCEPT !.tokens = Append(@, Token("Eof", "", sc.line, ""))]

\* Scanner::scan_tokens; the tokens returned are those of the scanner it leaves
scan_tokens(sc0) ==
    Bind(ScanLoop(sc0), LAMBDA r :
        IF r.kind # "Ok" THEN r ELSE Scanned(PushEof(r.sc)))

---------------------------------------------------------------------------
(* The parser: src/src/parser.rs.  The state ps the methods work on is the *)
(* Parser (tokens, current) with the standard output, which for_statement  *)
(* writes to.  A method returns Ok(value) or Err(message) and the state it *)
(* leaves.                                                                 *)

MaxArity == 255    \* the most parameters of a declaration and arguments of a call

Parsed(val, ps) == [kind |-> "Ok", val |-> val, msg |-> "", ps |-> ps]
ParseErr(msg, ps) == [kind |-> "Err", val |-> Nil, msg |-> msg, ps |-> ps]

\* A `loop` that goes on to its next iteration, with what it has pushed so far
Looping(val, ps) == [kind |-> "Loop", val |-> val, msg |-> "", ps |-> ps]

\* Parser::peek
peek(ps) == ps.tokens[ps.current + 1]

\* Parser::previous
previous(ps) == ps.tokens[ps.current]

\* Parser::is_at_end
is_at_end(ps) == peek(ps).token_type = "Eof"

\* Parser::advance: the parser after it; the token returned is its previous()
advance(ps) == IF ~is_at_end(ps) THEN [ps EXCEPT !.current = @ + 1] ELSE ps

\* Parser::check: the discriminants are compared
check(ps, token_type) == ~is_at_end(ps) /\ peek(ps).token_type = token_type

\* Parser::match_token: whether one of token_types matches; the parser is then advanced
MatchesToken(ps, token_types) ==
    \E i \in DOMAIN token_types :
        peek(ps).token_type # "Eof" /\ check(ps, token_types[i])

\* Parser::match_token: the parser after it
match_token(ps, token_types) == IF MatchesToken(ps, token_types) THEN advance(ps) ELSE ps

\* Parser::error
error(token, message) ==
    IF token.token_type = "Eof" THEN message \o " at end"
    ELSE message \o " at '" \o token.lexeme \o "'"

\* A plausible slip of consume: the token that is not the expected one is skipped
consumeSkipping(ps, token_type, message) ==
    IF check(ps, token_type) THEN Parsed(previous(advance(ps)), advance(ps))
    ELSE ParseErr(error(peek(ps), message), [ps EXCEPT !.current = @ + 1])

\* Parser::consume
consume(ps, token_type, message) ==
    IF check(ps, token_type) THEN Parsed(previous(advance(ps)), advance(ps))
    ELSE ParseErr(error(peek(ps), message), ps)

\* `Some(<method>()?)`
SomeOf(r) == Parsed(Some(r.val), r.ps)

\* println!("{:#?}", body): the text written, which begins with the variant's name
DebugStmt(body) == body.k \o " {:#?}"

\* A plausible slip of the desugaring: the increment is placed before the body
DesugarIncrementFirst(initializer, condition, increment, body) ==
    LET with_increment ==
            IF increment # None THEN BlockStmt(<< ExpressionStmt(increment[1]), body >>)
            ELSE body
        loop == WhileStmt(IF condition # None THEN condition[1] ELSE Literal(BoolV(TRUE)),
                          with_increment)
    IN  IF initializer # None THEN BlockStmt(<< initializer[1], loop >>) ELSE loop

\* Parser::for_statement: the statement built from the clauses and the body
Desugar(initializer, condition, increment, body) ==
    LET with_increment ==
            IF increment # None THEN BlockStmt(<< body, ExpressionStmt(increment[1]) >>)
            ELSE body
        loop == WhileStmt(IF condition # None THEN condition[1] ELSE Literal(BoolV(TRUE)),
                          with_increment)
    IN  IF initializer # None THEN BlockStmt(<< initializer[1], loop >>) ELSE loop

RECURSIVE declaration(_)
RECURSIVE var_declaration(_)
RECURSIVE statement(_)
RECURSIVE while_statement(_)
RECURSIVE for_statement(_)
RECURSIVE if_statement(_)
RECURSIVE block(_, _)
RECURSIVE print_statement(_)
RECURSIVE return_statement(_)
RECURSIVE expression_statement(_)
RECURSIVE function(_, _)
RECURSIVE ParametersLoop(_, _)
RECURSIVE expression(_)
RECURSIVE assignment(_)
RECURSIVE or(_)
RECURSIVE OrLoop(_, _)
RECURSIVE and(_)
RECURSIVE AndLoop(_, _)
RECURSIVE equality(_)
RECURSIVE EqualityLoop(_, _)
RECURSIVE comparison(_)
RECURSIVE ComparisonLoop(_, _)
RECURSIVE term(_)
RECURSIVE TermLoop(_, _)
RECURSIVE factor(_)
RECURSIVE FactorLoop(_, _)
RECURSIVE unary(_)
RECURSIVE call(_)
RECURSIVE CallLoop(_, _)
RECURSIVE finish_call(_, _)
RECURSIVE Arguments(_, _)
RECURSIVE ArgumentsLoop(_, _)
RECURSIVE primary(_)

\* Parser::declaration
declaration(ps) ==
    IF MatchesToken(ps, <<"Fun">>) THEN function(advance(ps), "function")
    ELSE IF MatchesToken(ps, <<"Var">>) THEN var_declaration(advance(ps))
    ELSE statement(ps)

\* Parser::var_declaration
var_declaration(ps) ==
    Try(consume(ps, "Identifier", "Expect variable name."), LAMBDA name :
    Try(IF MatchesToken(name.ps, <<"Equal">>)
        THEN Try(expression(advance(name.ps)), LAMBDA e : SomeOf(e))
        ELSE Parsed(None, name.ps), LAMBDA initializer :
    Try(consume(initializer.ps, "Semicolon", "Expect ';' after variable declaration."),
        LAMBDA semicolon :
        Parsed(VarStmt(name.val.lexeme, initializer.val), semicolon.ps))))

\* Parser::statement
statement(ps) ==
    IF MatchesToken(ps, <<"For">>) THEN for_statement(advance(ps))
    ELSE IF MatchesToken(ps, <<"If">>) THEN if_statement(advance(ps))
    ELSE IF MatchesToken(ps, <<"Print">>) THEN print_statement(advance(ps))
    ELSE IF MatchesToken(ps, <<"Return">>) THEN return_statement(advance(ps))
    ELSE IF MatchesToken(ps, <<"While">>) THEN while_statement(advance(ps))
    ELSE IF MatchesToken(ps, <<"LeftBrace">>)
    THEN Try(block(advance(ps), <<>>), LAMBDA b : Parsed(BlockStmt(b.val), b.ps))
    ELSE expression_statement(ps)

\* Parser::while_statement
while_statement(ps) ==
    Try(consume(ps, "LeftParen", "Expect '(' after 'while'."), LAMBDA left_paren :
    Try(expression(left_paren.ps), LAMBDA condition :
    Try(consume(condition.ps, "RightParen", "Expect ')' after condition."),
        LAMBDA right_paren :
    Try(statement(right_paren.ps), LAMBDA body :
        Parsed(WhileStmt(condition.val, body.val), body.ps)))))

\* Parser::for_statement
for_statement(ps) ==
    Try(consume(ps, "LeftParen", "Expect '(' after 'for'."), LAMBDA left_paren :
    Try(IF MatchesToken(left_paren.ps, <<"Semicolon">>)
        THEN Parsed(None, advance(left_paren.ps))
        ELSE IF MatchesToken(left_paren.ps, <<"Var">>)
        THEN Try(var_declaration(advance(left_paren.ps)), LAMBDA v : SomeOf(v))
        ELSE Try(expression_statement(left_paren.ps), LAMBDA e : SomeOf(e)),
        LAMBDA initializer :
    Try(IF ~check(initializer.ps, "Semicolon")
        THEN Try(expression(initializer.ps), LAMBDA e : SomeOf(e))
        ELSE Parsed(None, initializer.ps), LAMBDA condition :
    Try(consume(condition.ps, "Semicolon", "Expect ';' after loop condition."),
        LAMBDA semicolon :
    Try(IF ~check(semicolon.ps, "RightParen")
        THEN Try(expression(semicolon.ps), LAMBDA e : SomeOf(e))
        ELSE Parsed(None, semicolon.ps), LAMBDA increment :
    Try(consume(increment.ps, "RightParen", "Expect ')' after for clauses."),
        LAMBDA right_paren :
    Try(statement(right_paren.ps), LAMBDA body :
    Bind(Desugar(initializer.val, condition.val, increment.val, body.val),
         LAMBDA desugared :
        Parsed(desugared,
               [body.ps EXCEPT !.out = Append(@, DebugStmt(desugared))])))))))))

\* Parser::if_statement
if_statement(ps) ==
    Try(consume(ps, "LeftParen", "Expect '(' after 'if'."), LAMBDA left_paren :
    Try(expression(left_paren.ps), LAMBDA condition :
    Try(consume(condition.ps, "RightParen", "Expect ')' after if condition."),
        LAMBDA right_paren :
    Try(statement(right_paren.ps), LAMBDA then_branch :
    Try(IF MatchesToken(then_branch.ps, <<"Else">>)
        THEN Try(statement(advance(then_branch.ps)), LAMBDA e : SomeOf(e))
        ELSE Parsed(None, then_branch.ps), LAMBDA else_branch :
        Parsed(IfStmt(condition.val, then_branch.val, else_branch.val), else_branch.ps))))))

\* Parser::block, with the statements pushed so far
block(ps, statements) ==
    IF ~check(ps, "RightBrace") /\ ~is_at_end(ps)
    THEN Try(declaration(ps), LAMBDA d : block(d.ps, Append(statements, d.val)))
    ELSE Try(consume(ps, "RightBrace", "Expect '}' after block."), LAMBDA right_brace :
             Parsed(statements, right_brace.ps))

\* Parser::print_statement
print_statement(ps) ==
    Try(expression(ps), LAMBDA value :
    Try(consume(value.ps, "Semicolon", "Expect ';' after value."), LAMBDA semicolon :
        Parsed(PrintStmt(value.val), semicolon.ps)))

\* Parser::return_statement
return_statement(ps) ==
    Try(IF ~check(ps, "Semicolon")
        THEN Try(expression(ps), LAMBDA e : SomeOf(e))
        ELSE Parsed(None, ps), LAMBDA value :
    Try(consume(value.ps, "Semicolon", "Expect ';' after return value."),
        LAMBDA semicolon :
        Parsed(ReturnStmt(value.val), semicolon.ps)))

\* Parser::expression_statement
expression_statement(ps) ==
    Try(expression(ps), LAMBDA expr :
    Try(consume(expr.ps, "Semicolon", "Expect ';' after expression."), LAMBDA semicolon :
        Parsed(ExpressionStmt(expr.val), semicolon.ps)))

\* Parser::function: one iteration of the loop over the parameters, with those
\* pushed so far; a comma sends the loop to its next iteration
Parameters(ps, parameters) ==
    IF Len(parameters) >= MaxArity
    THEN ParseErr(error(peek(ps), "Can't have more than 255 parameters."), ps)
    ELSE Try(consume(ps, "Identifier", "Expect parameter name."), LAMBDA parameter :
             IF ~MatchesToken(parameter.ps, <<"Comma">>)
             THEN Parsed(Append(parameters, parameter.val.lexeme), parameter.ps)
             ELSE Looping(Append(parameters, parameter.val.lexeme),
                          advance(parameter.ps)))

\* Parser::function: the loop over the parameters, run from where r has left it
\* for at most the given number of iterations: the first half of them, then the rest
ParametersLoop(r, iterations) ==
    IF r.kind # "Loop" THEN r
    ELSE IF iterations <= 1 THEN Parameters(r.ps, r.val)
    ELSE Bind(ParametersLoop(r, iterations \div 2), LAMBDA half :
              ParametersLoop(half, iterations - iterations \div 2))

\* Parser::function
function(ps, kind) ==
    Try(consume(ps, "Identifier", "Expect " \o kind \o " name."), LAMBDA name :
    Try(consume(name.ps, "LeftParen", "Expect '(' after " \o kind \o " name."),
        LAMBDA left_paren :
    Try(IF ~check(left_paren.ps, "RightParen")
        THEN ParametersLoop(Looping(<<>>, left_paren.ps), MaxArity + 1)
        ELSE Parsed(<<>>, left_paren.ps), LAMBDA parameters :
    Try(consume(parameters.ps, "RightParen", "Expect ')' after parameters."),
        LAMBDA right_paren :
    Try(consume(right_paren.ps, "LeftBrace", "Expect '{' before " \o kind \o " body."),
        LAMBDA left_brace :
    Try(block(left_brace.ps, <<>>), LAMBDA body :
        Parsed(FunctionStmt(name.val.lexeme, parameters.val, body.val), body.ps)))))))

\* Parser::expression
expression(ps) == assignment(ps)

\* A plausible slip of assignment: the target is checked before the right-hand
\* side is parsed
assignmentEarlyCheck(ps) ==
    Try(or(ps), LAMBDA expr :
        IF MatchesToken(expr.ps, <<"Equal">>)
        THEN Bind(advance(expr.ps), LAMBDA after_equals :
             IF expr.val.k # "Variable"
             THEN ParseErr(error(previous(after_equals), "Invalid assignment target."),
                           after_equals)
             ELSE Try(assignment(after_equals), LAMBDA value :
                      Parsed(Assign(expr.val.name, value.val), value.ps)))
        ELSE expr)

\* Parser::assignment
assignment(ps) ==
    Try(or(ps), LAMBDA expr :
        IF MatchesToken(expr.ps, <<"Equal">>)
        THEN Bind(advance(expr.ps), LAMBDA after_equals :
             Try(assignment(after_equals), LAMBDA value :
                 IF expr.val.k = "Variable"
                 THEN Parsed(Assign(expr.val.name, value.val), value.ps)
                 ELSE ParseErr(error(previous(after_equals), "Invalid assignment target."),
                               value.ps)))
        ELSE expr)

\* Parser::or
or(ps) == Try(and(ps), LAMBDA expr : OrLoop(expr.val, expr.ps))

OrLoop(expr, ps) ==
    IF MatchesToken(ps, <<"Or">>)
    THEN Bind(advance(ps), LAMBDA after :
         Try(and(after), LAMBDA right :
             OrLoop(Logical(expr, previous(after).token_type, right.val), right.ps)))
    ELSE Parsed(expr, ps)

\* Parser::and
and(ps) == Try(equality(ps), LAMBDA expr : AndLoop(expr.val, expr.ps))

AndLoop(expr, ps) ==
    IF MatchesToken(ps, <<"And">>)
    THEN Bind(advance(ps), LAMBDA after :
         Try(equality(after), LAMBDA right :
             AndLoop(Logical(expr, previous(after).token_type, right.val), right.ps)))
    ELSE Parsed(expr, ps)

\* Parser::equality
equality(ps) == Try(comparison(ps), LAMBDA expr : EqualityLoop(expr.val, expr.ps))

EqualityLoop(expr, ps) ==
    IF MatchesToken(ps, <<"BangEqual", "EqualEqual">>)
    THEN Bind(advance(ps), LAMBDA after :
         Try(comparison(after), LAMBDA right :
             EqualityLoop(Binary(expr, previous(after).token_type, right.val), right.ps)))
    ELSE Parsed(expr, ps)

\* Parser::comparison
comparison(ps) == Try(term(ps), LAMBDA expr : ComparisonLoop(expr.val, expr.ps))

ComparisonLoop(expr, ps) ==
    IF MatchesToken(ps, <<"Greater", "GreaterEqual", "Less", "LessEqual">>)
    THEN Bind(advance(ps), LAMBDA after :
         Try(term(after), LAMBDA right :
             ComparisonLoop(Binary(expr, previous(after).token_type, right.val), right.ps)))
    ELSE Parsed(expr, ps)

\* Parser::term
term(ps) == Try(factor(ps), LAMBDA expr : TermLoop(expr.val, expr.ps))

TermLoop(expr, ps) ==
    IF MatchesToken(ps, <<"Minus", "Plus">>)
    THEN Bind(advance(ps), LAMBDA after :
         Try(factor(after), LAMBDA right :
             TermLoop(Binary(expr, previous(after).token_type, right.val), right.ps)))
    ELSE Parsed(expr, ps)

\* Parser::factor
factor(ps) == Try(unary(ps), LAMBDA expr : FactorLoop(expr.val, expr.ps))

FactorLoop(expr, ps) ==
    IF MatchesToken(ps, <<"Slash", "Star">>)
    THEN Bind(advance(ps), LAMBDA after :
         Try(unary(after), LAMBDA right :
             FactorLoop(Binary(expr, previous(after).token_type, right.val), right.ps)))
    ELSE Parsed(expr, ps)

\* Parser::unary
unary(ps) ==
    IF MatchesToken(ps, <<"Bang", "Minus">>)
    THEN Bind(advance(ps), LAMBDA after :
         Try(unary(after), LAMBDA right :
             Parsed(Unary(previous(after).token_type, right.val), right.ps)))
    ELSE call(ps)

\* Parser::call
call(ps) == Try(primary(ps), LAMBDA expr : CallLoop(expr.val, expr.ps))

CallLoop(expr, ps) ==
    IF MatchesToken(ps, <<"LeftParen">>)
    THEN Try(finish_call(advance(ps), expr), LAMBDA c : CallLoop(c.val, c.ps))
    ELSE Parsed(expr, ps)

\* Parser::finish_call: one iteration of the loop over the arguments, with those
\* pushed so far; a comma sends the loop to its next iteration
Arguments(ps, arguments) ==
    IF Len(arguments) >= MaxArity
    THEN ParseErr(error(peek(ps), "Can't have more than 255 arguments."), ps)
    ELSE Try(expression(ps), LAMBDA argument :
             IF ~MatchesToken(argument.ps, <<"Comma">>)
             THEN Parsed(Append(arguments, argument.val), argument.ps)
             ELSE Looping(Append(arguments, argument.val), advance(argument.ps)))

\* Parser::finish_call: the loop over the arguments, run from where r has left it
\* for at most the given number of iterations: the first half of them, then the rest
ArgumentsLoop(r, iterations) ==
    IF r.kind # "Loop" THEN r
    ELSE IF iterations <= 1 THEN Arguments(r.ps, r.val)
    ELSE Bind(ArgumentsLoop(r, iterations \div 2), LAMBDA half :
              ArgumentsLoop(half, iterations - iterations \div 2))

\* Parser::finish_call
finish_call(ps, callee) ==
    Try(IF ~check(ps, "RightParen") THEN ArgumentsLoop(Looping(<<>>, ps), MaxArity + 1)
        ELSE Parsed(<<>>, ps),
        LAMBDA arguments :
    Try(consume(arguments.ps, "RightParen", "Expect ')' after arguments."), LAMBDA paren :
        Parsed(Call(callee, arguments.val), paren.ps)))

\* Parser::primary
primary(ps) ==
    CASE peek(ps).token_type = "False" -> Parsed(Literal(BoolV(FALSE)), advance(ps))
      [] peek(ps).token_type = "True" -> Parsed(Literal(BoolV(TRUE)), advance(ps))
      [] peek(ps).token_type = "Nil" -> Parsed(Literal(Nil), advance(ps))
      [] peek(ps).token_type = "Number" -> Parsed(Literal(NumV(peek(ps).value)), advance(ps))
      [] peek(ps).token_type = "String" -> Parsed(Literal(StrV(peek(ps).value)), advance(ps))
      [] peek(ps).token_type = "Identifier" ->
            Parsed(Variable(previous(advance(ps)).lexeme), advance(ps))
      [] peek(ps).token_type = "LeftParen" ->
            Try(expression(advance(ps)), LAMBDA expr :
            Try(consume(expr.ps, "RightParen", "Expect ')' after expression."),
                LAMBDA right_paren :
                Parsed(Grouping(expr.val), right_paren.ps)))
      [] OTHER -> ParseErr(error(peek(ps), "Expect expression."), ps)

RECURSIVE ParseLoop(_, _)

\* A plausible slip of parse: at a parse error the statements parsed so far are
\* returned
ParseLoopPartial(ps, statements) ==
    IF ~is_at_end(ps)
    THEN Bind(declaration(ps), LAMBDA d :
             IF d.kind # "Ok" THEN Parsed(statements, d.ps)
             ELSE ParseLoop(d.ps, Append(statements, d.val)))
    ELSE Parsed(statements, ps)

\* Parser::parse: the while loop, with the statements pushed so far
ParseLoop(ps, statements) ==
    IF ~is_at_end(ps)
    THEN Try(declaration(ps), LAMBDA d : ParseLoop(d.ps, Append(statements, d.val)))
    ELSE Parsed(statements, ps)

\* Parser::parse
parse(ps) == ParseLoop(ps, <<>>)

\* Parser::new
ParserNew(tokens) == [tokens |-> tokens, current |-> 0]

\* `let mut scanner = Scanner::new(..); let tokens = scanner.scan_tokens();
\* let mut parser = Parser::new(tokens);` of parse_and_run, run_file and repl.
\* A panic of the scanner aborts the process.
ScanTokens ==
    /\ status = "scanning"
    /\ \E r \in {scan_tokens(scanner)} :
          /\ scanner' = r.sc
          /\ parser' = IF r.kind = "Ok" THEN ParserNew(r.sc.tokens) ELSE parser
          /\ status' = IF r.kind = "Ok" THEN "parsing" ELSE "panic"
          /\ diag' = IF r.kind = "Ok" THEN diag ELSE r.msg
    /\ UNCHANGED <<mode, unit, pc, envs, out, failed, lines, now, unitStart, last>>

\* The characters of the sources scanned exhaustively
ScanAlphabet == {"1", "o", "r", "\"", "\n", "@", "/", "=", " "}

\* The sources of at most MaxSource characters
ShortSources == UNION {[1..n -> ScanAlphabet] : n \in 0..MaxSource}

InitScan ==
    /\ mode = "scan"
    /\ unit = <<>>
    /\ pc = 1
    /\ envs = EnvironmentNew(<<>>)
    /\ out = <<>>
    /\ status = "scanning"
    /\ diag = ""
    /\ failed = FALSE
    /\ lines = 1
    /\ now = 0
    /\ unitStart = [envs |-> Len(envs), out |-> 0]
    /\ last = NoOp
    /\ \E source \in ShortSources : scanner = ScannerNew(source)
    /\ parser = NoParser

NextScan == ScanTokens

SpecScan == InitScan /\ [][NextScan]_vars

---------------------------------------------------------------------------
(* The whole path from the source text: scan_tokens, parse, and the        *)
(* statement loop, for parse_and_run, run_file and repl.  The Scanner that *)
(* parse_and_run names (crate::scanner::Scanner) is taken to be the        *)
(* Scanner of src/src/main.rs.                                             *)

\* print 1;print 2;
PrintTwiceSource ==
    << "p", "r", "i", "n", "t", " ", "1", ";", "p", "r", "i", "n", "t", " ", "2",
       ";" >>

\* var a=1;a=2;print a;
AssignSource ==
    << "v", "a", "r", " ", "a", "=", "1", ";", "a", "=", "2", ";", "p", "r", "i",
       "n", "t", " ", "a", ";" >>

\* fun f(p){print p;}f(1);
FunctionSource ==
    << "f", "u", "n", " ", "f", "(", "p", ")", "{", "p", "r", "i", "n", "t", " ",
       "p", ";", "}", "f", "(", "1", ")", ";" >>

\* print 1==1;
EqualEqualSource ==
    << "p", "r", "i", "n", "t", " ", "1", "=", "=", "1", ";" >>

\* print 1;\nprint v;\nprint 2;
RuntimeErrorSource ==
    << "p", "r", "i", "n", "t", " ", "1", ";", "\n", "p", "r", "i", "n", "t", " ",
       "v", ";", "\n", "p", "r", "i", "n", "t", " ", "2", ";" >>

\* for(var i=0;i<2;i=i+1)print i;
ForSource ==
    << "f", "o", "r", "(", "v", "a", "r", " ", "i", "=", "0", ";", "i", "<", "2",
       ";", "i", "=", "i", "+", "1", ")", "p", "r", "i", "n", "t", " ", "i", ";" >>

\* print 1;print ;
MissingExpressionSource ==
    << "p", "r", "i", "n", "t", " ", "1", ";", "p", "r", "i", "n", "t", " ", ";" >>

\* print 1;{
UnclosedBlockSource ==
    << "p", "r", "i", "n", "t", " ", "1", ";", "{" >>

\* print 1;1=2;
InvalidTargetSource ==
    << "p", "r", "i", "n", "t", " ", "1", ";", "1", "=", "2", ";" >>

\* print 1;\n@
UnexpectedCharacterSource ==
    << "p", "r", "i", "n", "t", " ", "1", ";", "\n", "@" >>

\* print 1;print "a
UnterminatedStringSource ==
    << "p", "r", "i", "n", "t", " ", "1", ";", "p", "r", "i", "n", "t", " ", "\"",
       "a" >>

ParseErrorSources == {MissingExpressionSource, UnclosedBlockSource, InvalidTargetSource}

LexicalErrorSources == {UnexpectedCharacterSource, UnterminatedStringSource}

FrontSources ==
    {<<>>, PrintTwiceSource, AssignSource, FunctionSource, EqualEqualSource,
     RuntimeErrorSource, ForSource}
    \cup ParseErrorSources \cup LexicalErrorSources

InitFront ==
    /\ mode \in {"interpreter", "run_file", "repl"}
    /\ unit = <<>>
    /\ pc = 1
    /\ envs = IF mode = "interpreter" THEN InterpreterNew ELSE EnvironmentNew(<<>>)
    /\ out = <<>>
    /\ status = "scanning"
    /\ diag = ""
    /\ failed = FALSE
    /\ lines = 1
    /\ now = 0
    /\ unitStart = [envs |-> Len(envs), out |-> 0]
    /\ last = NoOp
    /\ \E source \in FrontSources : scanner = ScannerNew(source)
    /\ parser = NoParser

\* `self.run(parser.parse()?)` of parse_and_run, `match parser.parse()` of run_file
\* and repl: the statements are handed to the statement loop, or the error is
\* returned (parse_and_run) or printed (run_file, repl)
ParserParse ==
    /\ status = "parsing"
    /\ \E r \in {parse([tokens |-> parser.tokens, current |-> parser.current,
                          out |-> out])} :
          /\ parser' = [tokens |-> r.ps.tokens, current |-> r.ps.current]
          /\ unit' = IF r.kind = "Ok" THEN r.val ELSE <<>>
          /\ pc' = 1
          /\ out' = IF r.kind = "Err" /\ mode # "interpreter"
                    THEN Append(r.ps.out, r.msg) ELSE r.ps.out
          /\ status' = IF r.kind = "Ok"
                       THEN IF r.val = <<>> THEN "done" ELSE "running"
                       ELSE IF mode = "interpreter" THEN "error" ELSE "done"
          /\ diag' = IF r.kind = "Err" /\ mode = "interpreter" THEN r.msg ELSE diag
    /\ UNCHANGED <<mode, scanner, envs, failed, lines, now, unitStart, last>>

\* repl: rl.readline returns the next line; the environment is kept
ReplReadSource ==
    /\ mode = "repl"
    /\ status = "done"
    /\ lines < MaxLines
    /\ \E line \in FrontSources : scanner' = ScannerNew(line)
    /\ parser' = NoParser
    /\ unit' = <<>>
    /\ pc' = 1
    /\ status' = "scanning"
    /\ failed' = FALSE
    /\ lines' = lines + 1
    /\ unitStart' = [envs |-> Len(envs), out |-> Len(out)]
    /\ UNCHANGED <<mode, envs, out, diag, now, last>>

NextFront ==
    ScanTokens \/ ParserParse \/ InterpreterRun \/ RunFile \/ Repl \/ ReplReadSource

SpecFront == InitFront /\ [][NextFront]_vars

---------------------------------------------------------------------------
(* The parser on token vectors: Parser::new(tokens) for any vector that    *)
(* ends with Eof (those no scan of a source returns included: Parser::new  *)
(* is public and takes any Vec<Token>), then parse and the statement loop  *)
(* of run_file.  A vector is written as the sequence of the lexemes of its *)
(* tokens before the final Eof; the lexeme of an Eof token is empty.       *)

MaxTokens == 3     \* the vectors parsed exhaustively hold at most MaxTokens tokens before Eof

EofToken == Token("Eof", "", 1, "")

\* The token the scanner makes of a lexeme, on line 1
TokenOf(lexeme) ==
    IF lexeme = "" THEN EofToken
    ELSE IF lexeme \in {"(", ")", "{", "}", ",", ".", "-", "+", ";", "*"}
    THEN Token(SingleCharacter(lexeme), lexeme, 1, "")
    ELSE IF lexeme \in {"!", "=", "<", ">"}
    THEN Token(OneOrTwoCharacters(lexeme, FALSE), lexeme, 1, "")
    ELSE IF lexeme \in Digits
    THEN Token("Number", lexeme, 1, CHOOSE n \in 0..9 : ToString(n) = lexeme)
    ELSE Token(Keyword(lexeme), lexeme, 1,
               IF Keyword(lexeme) = "Identifier" THEN lexeme ELSE "")

\* The token vector of a sequence of lexemes, ended by Eof
Tokens(lexemes) == [i \in DOMAIN lexemes |-> TokenOf(lexemes[i])] \o << EofToken >>

\* The lexemes of its tokens before the final Eof
Lexemes(tokens) == [i \in 1..(Len(tokens) - 1) |-> tokens[i].lexeme]

\* The lexemes the short vectors are made of; that of Eof is one of them
ParseAlphabet == {"a", "1", "=", "(", ")", ";", "{", "}", "return", ""}

\* Every vector of at most MaxTokens tokens before the final Eof
ShortTokenVectors == UNION {[1..n -> ParseAlphabet] : n \in 0..MaxTokens}

\* count repetitions of item, separated by commas
CommaSeparated(item, count) ==
    [i \in 1..(2 * count - 1) |-> IF i % 2 = 1 THEN item ELSE ","]

\* fun f(a, ..., a){}print 1;  with count parameters
ManyParameters(count) ==
    <<"fun", "f", "(">> \o CommaSeparated("a", count)
    \o <<")", "{", "}", "print", "1", ";">>

\* f(1, ..., 1);print 1;  with count arguments
ManyArguments(count) ==
    <<"f", "(">> \o CommaSeparated("1", count) \o <<")", ";", "print", "1", ";">>

ArityInputs ==
    {ManyParameters(count) : count \in {MaxArity, MaxArity + 1}}
    \cup {ManyArguments(count) : count \in {MaxArity, MaxArity + 1}}

\* The left-hand sides of `lhs = rhs;`: a, 1, (a), a(), a+1
Targets == {<<"a">>, <<"1">>, <<"(", "a", ")">>, <<"a", "(", ")">>, <<"a", "+", "1">>}

\* The right-hand sides: 2, b=2, nothing, (2 with no closing parenthesis, 1=2
Sources == {<<"2">>, <<"b", "=", "2">>, <<>>, <<"(", "2">>, <<"1", "=", "2">>}

\* lhs = rhs;
Assignment(lhs, rhs) == lhs \o <<"=">> \o rhs \o <<";">>

AssignmentInputs == {Assignment(lhs, rhs) : lhs \in Targets, rhs \in Sources}

\* The clauses and the bodies of the for loops parsed, as lexemes
ForInitializer(initializer) ==
    CASE initializer = "none" -> <<";">>
      [] initializer = "var" -> <<"var", "n", "=", "1", ";">>
      [] initializer = "expression" -> <<"n", "=", "1", ";">>

ForCondition(condition) ==
    CASE condition = "none" -> <<>>
      [] condition = "less" -> <<"n", "<", "3">>

ForIncrement(increment) ==
    CASE increment = "none" -> <<>>
      [] increment = "plus" -> <<"n", "=", "n", "+", "1">>

ForBody(body) ==
    CASE body = "print" -> <<"print", "n", ";">>
      [] body = "count" -> <<"{", "print", "n", ";", "n", "=", "n", "+", "1", ";", "}">>
      [] body = "return" ->
            <<"{", "print", "n", ";", "if", "(", "n", ")", "return", ";",
              "n", "=", "n", "+", "1", ";", "}">>

ForInitializers == {"none", "var", "expression"}
ForConditions == {"none", "less"}
ForIncrements == {"none", "plus"}
ForBodies == {"print", "count", "return"}

\* var n=0;for(<initializer> <condition>; <increment>) <body>
ForLoop(initializer, condition, increment, body) ==
    <<"var", "n", "=", "0", ";", "for", "(">> \o ForInitializer(initializer)
    \o ForCondition(condition) \o <<";">> \o ForIncrement(increment)
    \o <<")">> \o ForBody(body)

ForInputs ==
    {ForLoop(initializer, condition, increment, body) :
        initializer \in ForInitializers, condition \in ForConditions,
        increment \in ForIncrements, body \in ForBodies}

ParseInputs == ShortTokenVectors \cup ArityInputs \cup AssignmentInputs \cup ForInputs

InitParse ==
    /\ mode = "run_file"
    /\ unit = <<>>
    /\ pc = 1
    /\ envs = EnvironmentNew(<<>>)
    /\ out = <<>>
    /\ status = "parsing"
    /\ diag = ""
    /\ failed = FALSE
    /\ lines = 1
    /\ now = 0
    /\ unitStart = [envs |-> Len(envs), out |-> 0]
    /\ last = NoOp
    /\ scanner = NoScanner
    /\ \E lexemes \in ParseInputs : parser = ParserNew(Tokens(lexemes))

NextParse == ParserParse \/ RunFile

SpecParse == InitParse /\ [][NextParse]_vars

---------------------------------------------------------------------------
(* What the properties speak of *)

\* The output of the current input unit
UnitOut == SubSeq(out, unitStart.out + 1, Len(out))

\* The scopes from environment id outward
RECURSIVE Chain(_, _)
Chain(h, id) == IF id = NoEnv THEN <<>> ELSE <<id>> \o Chain(h, h[id].enclosing)

\* The innermost scope of the chain of id that binds name, NoEnv when none does
Binder(h, id, name) ==
    LET chain == Chain(h, id)
        binding == {i \in 1..Len(chain) : name \in DOMAIN h[chain[i]].values}
    IN  IF binding = {} THEN NoEnv
        ELSE chain[CHOOSE i \in binding : \A j \in binding : i <= j]

---------------------------------------------------------------------------
(* Properties of the evaluator, checked under Spec *)

\* C1: a return nested in a Block, an If or a While of a function body is caught
\* at the call: `fun n() { <return 1; nested> print 2; } print n(); print 3;`
\* runs to completion and prints 1 (the value of the call) and 3, never 2.
C1_NestedReturnCaught ==
    \A nesting \in Nestings :
        (unit = NestedReturnProgram(nesting) /\ status # "running")
            => (status = "done" /\ UnitOut = <<"1", "3">>)

\* C2: a return executed at the top level ends the unit with the runtime error
\* "return from top-level": that is the Err Interpreter::run returns, and the
\* line run_file and repl print for the statement.
C2_TopLevelReturnError ==
    /\ (mode = "interpreter" /\ status = "error" /\ unit[pc].k = "Return")
           => diag = "return from top-level"
    /\ (mode \in {"run_file", "repl"} /\ pc > 1 /\ unit[pc - 1].k = "Return")
           => out[Len(out)] = "return from top-level"

\* C3: in the counter program, after `var h = f();` the n-th `print h();` prints
\* n, for n = 1 .. MaxCalls; the counted variable c is bound in the environment of
\* the one f call (the closure of h), where it holds the number of calls made,
\* and nowhere in the top-level environment.
C3_ClosureCounter ==
    unit = CounterProgram =>
        LET calls == IF pc > 2 THEN pc - 3 ELSE 0
            top == envs[TopEnv].values
        IN  /\ status \in {"running", "done"}
            /\ UnitOut = [i \in 1..calls |-> ToString(i)]
            /\ pc > 2 =>
                /\ top["h"].t = "Function"
                /\ top["h"].name = "g"
                /\ top["h"].closure = unitStart.envs + 1
                /\ envs[unitStart.envs + 1].values["c"] = NumV(calls)
                /\ "c" \notin DOMAIN top

C3_Witness ==
    /\ unit = CounterProgram
    /\ status = "done"
    /\ Len(UnitOut) = MaxCalls
    /\ UnitOut[MaxCalls] = ToString(MaxCalls)

\* C4: a call runs in a new environment that encloses the function's closure and
\* not the caller's environment.  In the lexical program show() is called from
\* caller(2), whose environment binds x to 2: show prints the x of its closure,
\* 1; the parameter x is bound in the environment of the caller call alone, and
\* the top-level x is still 1 afterwards.  In the counter program every call of
\* the returned g runs in an environment enclosed by the f call's, though it is
\* called from the top level.
C4_CallEnclosedByClosure ==
    /\ unit = LexicalProgram =>
          /\ status \in {"running", "done"}
          /\ status = "done" =>
                /\ UnitOut = <<"1", "1">>
                /\ Len(envs) = unitStart.envs + 2
                /\ envs[unitStart.envs + 1] =
                       [enclosing |-> TopEnv, values |-> Insert(EmptyValues, "x", NumV(2))]
                /\ envs[unitStart.envs + 2] =
                       [enclosing |-> TopEnv, values |-> EmptyValues]
                /\ envs[TopEnv].values["x"] = NumV(1)
    /\ (unit = CounterProgram /\ pc > 2) =>
          \A i \in 1..(pc - 3) :
              /\ envs[unitStart.envs + 1 + i].enclosing = unitStart.envs + 1
              /\ envs[unitStart.envs + 1 + i].enclosing # TopEnv

C4_Witness ==
    /\ unit = LexicalProgram
    /\ status = "done"
    /\ Len(envs) = unitStart.envs + 2
    /\ UnitOut = <<"1", "1">>

\* C8: define writes the binding into the given scope alone, in every environment
\* of every heap the programs build; and in `var a = 1; { var a = 2; print a; }
\* print a;` the block's a is bound in the block's fresh environment, the outer
\* a keeps the value 1, and the program prints 2 then 1.
C8_DefineCurrentScopeOnly ==
    /\ \A id \in DOMAIN envs, name \in {"a", "fresh"} :
          LET h == define(envs, id, name, NumV(7))
          IN  /\ Len(h) = Len(envs)
              /\ \A other \in DOMAIN envs : other # id => h[other] = envs[other]
              /\ h[id].enclosing = envs[id].enclosing
              /\ DOMAIN h[id].values = DOMAIN envs[id].values \cup {name}
              /\ h[id].values[name] = NumV(7)
              /\ \A n \in DOMAIN envs[id].values :
                    n # name => h[id].values[n] = envs[id].values[n]
    /\ unit = ShadowProgram =>
          /\ status \in {"running", "done"}
          /\ pc > 1 => envs[TopEnv].values["a"] = NumV(1)
          /\ pc > 2 =>
                /\ envs[unitStart.envs + 1] =
                       [enclosing |-> TopEnv, values |-> Insert(EmptyValues, "a", NumV(2))]
                /\ UnitOut[1] = "2"
          /\ status = "done" => UnitOut = <<"2", "1">>

C8_Witness ==
    /\ unit = ShadowProgram
    /\ status = "done"
    /\ UnitOut = <<"2", "1">>
    /\ envs[unitStart.envs + 1].values["a"] = NumV(2)

\* C9: a run ends in completion or in a reported runtime error, never in an
\* abnormal abort: `fun e() { <failing statement> } e(); print 1;`, whose call
\* raises a runtime error in the function body (an undefined variable, a call
\* of a non-function, an arity mismatch), ends with that error reported.
C9_NoAbnormalAbort ==
    \A failure \in Failures :
        unit = ErrorInFunctionProgram(failure) =>
            /\ status \in {"running", "done", "error"}
            /\ status # "running" => failed

\* C10: once a statement of the current unit has failed with a runtime error, no
\* later statement of the unit writes output or changes an environment.
C10_ErrorAbortsUnit == [][failed => (out' = out /\ envs' = envs)]_vars

\* C17: a call whose body runs to its end without a return evaluates to nil, and
\* a declaration binds the function's name in the declaring environment, so the
\* body can call the function by name.  In `fun count(n) { if (n > 0) count(n - 1);
\* print n; } print count(MaxRecursion);` count is bound at the top level with the
\* top level as its closure, the calls print 0 .. MaxRecursion and the outer call
\* prints nil; each of the MaxRecursion + 1 calls has an environment of its own
\* that encloses the top level and binds n alone, to that call's argument.
C17_ImplicitNilAndRecursion ==
    unit = RecursionProgram =>
        /\ status \in {"running", "done"}
        /\ pc > 1 =>
              /\ "count" \in DOMAIN envs[TopEnv].values
              /\ envs[TopEnv].values["count"].t = "Function"
              /\ envs[TopEnv].values["count"].closure = TopEnv
        /\ status = "done" =>
              /\ UnitOut = [i \in 1..(MaxRecursion + 1) |-> ToString(i - 1)] \o <<"nil">>
              /\ Len(envs) = unitStart.envs + MaxRecursion + 1
              /\ \A i \in 0..MaxRecursion :
                    envs[unitStart.envs + 1 + i] =
                        [enclosing |-> TopEnv,
                         values |-> Insert(EmptyValues, "n", NumV(MaxRecursion - i))]

C17_Witness ==
    /\ unit = RecursionProgram
    /\ status = "done"
    /\ Len(UnitOut) = MaxRecursion + 2
    /\ UnitOut[MaxRecursion + 2] = "nil"
    /\ Len(envs) = unitStart.envs + MaxRecursion + 1

---------------------------------------------------------------------------
(* Properties of the environment, checked under SpecEnv *)

\* C5: an assignment to a name some scope of the chain binds writes the value
\* into the innermost such scope and changes nothing else on the heap: no other
\* scope, no other name, no new binding.
C5_AssignInnermostBinder ==
    (last.op = "assign" /\ Binder(last.pre, last.env, last.name) # NoEnv) =>
        LET s == Binder(last.pre, last.env, last.name)
        IN  /\ last.kind = "Ok"
            /\ last.res = last.val
            /\ envs = [last.pre EXCEPT ![s].values[last.name] = last.val]

C5_Witness ==
    /\ last.op = "assign"
    /\ last.kind = "Ok"
    /\ Binder(last.pre, last.env, last.name) # last.env
    /\ last.pre[Binder(last.pre, last.env, last.name)].values[last.name] # last.val

\* C6: an assignment to a name no scope of the chain binds fails with
\* "Undefined variable 'x'." and leaves the heap as it was; a read of such a name
\* fails with the same message.
C6_UndefinedVariable ==
    (last.op \in {"assign", "get"} /\ Binder(last.pre, last.env, last.name) = NoEnv) =>
        /\ last.kind = "Err"
        /\ last.msg = "Undefined variable '" \o last.name \o "'."
        /\ envs = last.pre

C6_Witness ==
    /\ last.op = "assign"
    /\ last.kind = "Err"
    /\ Len(Chain(last.pre, last.env)) > 1
    /\ envs = last.pre

\* C7: a read returns the value the innermost binding scope of the chain holds,
\* whatever the depth of the chain and whichever scopes bind the name.
C7_GetInnermostBinding ==
    (last.op = "get" /\ Binder(last.pre, last.env, last.name) # NoEnv) =>
        /\ last.kind = "Ok"
        /\ last.res = last.pre[Binder(last.pre, last.env, last.name)].values[last.name]
        /\ envs = last.pre

C7_Witness ==
    /\ last.op = "get"
    /\ last.kind = "Ok"
    /\ \E i, j \in DOMAIN Chain(last.pre, last.env) :
          /\ i < j
          /\ last.name \in DOMAIN last.pre[Chain(last.pre, last.env)[i]].values
          /\ last.name \in DOMAIN last.pre[Chain(last.pre, last.env)[j]].values
          /\ last.pre[Chain(last.pre, last.env)[i]].values[last.name]
                 # last.pre[Chain(last.pre, last.env)[j]].values[last.name]

---------------------------------------------------------------------------
(* Properties of single nodes, checked under SpecEval *)

\* The operands and the side-effect variable of the node evaluated
LeftOperand == last.pre[1].values["l"]
RightValue == last.pre[1].values["r"]
SideEffectVariable == envs[1].values["e"]

\* The truthiness the language defines: false and nil are falsy, all else truthy
Truthy(v) == ~(v.t = "Nil" \/ (v.t = "Boolean" /\ ~v.b))

\* The right operand of the logical expression evaluated has been evaluated
RightEvaluated == SideEffectVariable # Unevaluated \/ out # <<>>

\* C11: only false and nil are falsy.  `if (l) print "then"; else print "else";`
\* takes the then branch, `while (l) { print "body"; l = nil; }` runs its body,
\* `!l` is false, `l and b` evaluates b and `l or b` does not, exactly when l is
\* neither false nor nil: so for 0, "", a user function and a native function.
C11_OnlyFalseAndNilFalsy ==
    /\ last.op = "if" =>
          out = << IF Truthy(LeftOperand) THEN "then" ELSE "else" >>
    /\ last.op = "while" =>
          out = IF Truthy(LeftOperand) THEN <<"body">> ELSE <<>>
    /\ last.op = "bang" =>
          (last.kind = "Ok" /\ last.res = BoolV(~Truthy(LeftOperand)))
    /\ (last.op = "logical" /\ last.name = "And") =>
          (RightEvaluated <=> Truthy(LeftOperand))
    /\ (last.op = "logical" /\ last.name = "Or") =>
          (RightEvaluated <=> ~Truthy(LeftOperand))

\* C12: in `l or b` with l truthy, and in `l and b` with l falsy, the result is
\* the value of l itself and b is not evaluated: the assignment or the call in b
\* leaves the environment and the output as they were.  Otherwise the result is
\* the value of b, whose side effect has taken place.
C12_ShortCircuit ==
    last.op = "logical" =>
        IF (last.name = "Or" /\ Truthy(LeftOperand))
              \/ (last.name = "And" /\ ~Truthy(LeftOperand))
        THEN /\ last.kind = "Ok"
             /\ last.res = LeftOperand
             /\ envs = last.pre
             /\ out = <<>>
        ELSE /\ last.kind = "Ok"
             /\ last.val = StrV("assignment") =>
                   (last.res = RightValue /\ SideEffectVariable = RightValue)
             /\ last.val = StrV("call") =>
                   (last.res = Nil /\ out = <<"body">>)

\* C13: `l + r` is the concatenation when both operands are strings, the sum when
\* both are numbers, and a runtime error for every other pair of variants.
C13_PlusByVariant ==
    last.op = "plus" =>
        IF LeftOperand.t = "String" /\ RightValue.t = "String"
        THEN last.kind = "Ok" /\ last.res = StrV(LeftOperand.s \o RightValue.s)
        ELSE IF LeftOperand.t = "Number" /\ RightValue.t = "Number"
        THEN last.kind = "Ok" /\ last.res = NumV(LeftOperand.n + RightValue.n)
        ELSE last.kind = "Err"

\* The operands are of the same variant and hold the same payload
SameValue(l, r) ==
    /\ l.t = r.t
    /\ CASE l.t = "Nil" -> TRUE
         [] l.t = "Boolean" -> l.b = r.b
         [] l.t = "Number" -> l.n = r.n
         [] l.t = "String" -> l.s = r.s
         [] OTHER -> l = r

\* C14: `l == r` and `l != r` evaluate to a Boolean for every pair of operands,
\* never to an error or an abort: `l == r` is true exactly when l and r are the
\* same variant with equal payload, and `l != r` is its negation.
C14_EqualityTotal ==
    last.op = "equality" =>
        /\ last.kind = "Ok"
        /\ last.res = BoolV(IF last.name = "EqualEqual"
                            THEN SameValue(LeftOperand, RightValue)
                            ELSE ~SameValue(LeftOperand, RightValue))

\* The value of the callee expression of the call evaluated
CalleeValue == last.pre[1].values[last.name]

\* The arity of a user or native function
Arity(v) == IF v.t = "Function" THEN Len(v.parameters) ELSE 0

\* The heap after the side effects of (e = callee)(e = 1, ..., e = n) alone
AfterArguments ==
    [last.pre EXCEPT ![1].values["e"] = IF last.val.n > 0 THEN last.val ELSE CalleeValue]

\* C15: a call of a user or native function of arity N with M # N arguments
\* fails with "Expected N arguments but got M."; no environment is created, no
\* parameter is bound and no statement of the body runs: the heap is the one the
\* callee and argument expressions left, and nothing is printed.
C15_ArityMismatch ==
    (/\ last.op = "call"
     /\ CalleeValue.t \in {"Function", "NativeFunction"}
     /\ Arity(CalleeValue) # last.val.n) =>
        /\ last.kind = "Err"
        /\ last.msg = "Expected " \o ToString(Arity(CalleeValue))
                          \o " arguments but got " \o ToString(last.val.n) \o "."
        /\ envs = AfterArguments
        /\ out = <<>>

C15_Witness ==
    /\ last.op = "call"
    /\ last.name = "f2"
    /\ last.val = NumV(1)
    /\ last.kind = "Err"
    /\ Len(envs) = 1

\* C16: in `(e = callee)(e = 1, ..., e = n)` the callee is evaluated first and
\* the arguments after it, left to right, so e ends as n (as the callee's value
\* when n = 0); a callee that is nil, a boolean, a number or a string then
\* fails the call with "Can only call functions and classes.", the side effects
\* of all the arguments having taken place and nothing else.
C16_CalleeCheckedAfterArguments ==
    last.op = "call" =>
        /\ SideEffectVariable = IF last.val.n > 0 THEN last.val ELSE CalleeValue
        /\ CalleeValue.t \in {"Nil", "Boolean", "Number", "String"} =>
              /\ last.kind = "Err"
              /\ last.msg = "Can only call functions and classes."
              /\ envs = AfterArguments
              /\ out = <<>>

C16_Witness ==
    /\ last.op = "call"
    /\ last.name = "l"
    /\ CalleeValue = NumV(1)
    /\ last.val = NumV(MaxArgs)
    /\ last.kind = "Err"
    /\ SideEffectVariable = NumV(MaxArgs)

---------------------------------------------------------------------------
(* Properties of the scanner, checked under SpecScan *)

\* The number of newline characters of a source
Newlines(source) == Cardinality({i \in DOMAIN source : source[i] = "\n"})

\* C18: when scanning returns, the token sequence it returns is not empty, its
\* last token is Eof and no earlier token is; the line of the Eof token is the
\* final value of the scanner's line counter, which is 1 plus the number of
\* newlines of the source (all of them consumed, those inside string literals
\* and those ending comments included).
C18_EndsWithOneEof ==
    status = "parsing" =>
        /\ parser.tokens = scanner.tokens
        /\ Len(parser.tokens) > 0
        /\ parser.tokens[Len(parser.tokens)].token_type = "Eof"
        /\ \A i \in 1..(Len(parser.tokens) - 1) : parser.tokens[i].token_type # "Eof"
        /\ parser.tokens[Len(parser.tokens)].line = scanner.line
        /\ scanner.current = Len(scanner.source)
        /\ scanner.line = 1 + Newlines(scanner.source)

C18_Witness ==
    /\ status = "parsing"
    /\ Len(parser.tokens) = 2
    /\ parser.tokens[1].token_type = "String"
    /\ parser.tokens[1].value = "\n"
    /\ parser.tokens[2] = Token("Eof", "", 2, "")

---------------------------------------------------------------------------
(* Properties of the path from the source text, checked under SpecFront *)

\* C19: a lexical error is an error outcome of the input unit, as a parse error
\* is: when run_file or repl scan `print 1;\n@` (a character that starts no
\* token) or `print 1;print "a` (an unterminated string), scanning ends with the
\* unit done, so that the REPL can read its next line, never with the process
\* aborted; the parser is handed no tokens and no statement is executed.
C19_LexicalErrorReported ==
    (/\ mode \in {"run_file", "repl"}
     /\ scanner.source \in LexicalErrorSources
     /\ status # "scanning") =>
        /\ status = "done"
        /\ parser.tokens = <<>>
        /\ unit = <<>>

\* The parse error of each ill-formed source
ExpectedParseError(source) ==
    CASE source = MissingExpressionSource -> "Expect expression. at ';'"
      [] source = UnclosedBlockSource -> "Expect '}' after block. at end"
      [] source = InvalidTargetSource -> "Invalid assignment target. at '='"

\* C20: parse returns the complete list of statements or an error.  For
\* `print 1;print ;`, `print 1;{` and `print 1;1=2;`, whose first statement is
\* well formed, the outcome is the error alone: the statement loop is given no
\* statement, `print 1;` is not executed, no environment is created, and the
\* error is what parse_and_run returns and the only line run_file and repl
\* print.  For `print 1;print 2;` the statements are both Print statements, and
\* the unit prints 1 and 2.
C20_ParseAllOrNothing ==
    /\ (scanner.source \in ParseErrorSources /\ status \notin {"scanning", "parsing"}) =>
          /\ unit = <<>>
          /\ pc = 1
          /\ status = IF mode = "interpreter" THEN "error" ELSE "done"
          /\ UnitOut = IF mode = "interpreter" THEN <<>>
                       ELSE << ExpectedParseError(scanner.source) >>
          /\ mode = "interpreter" => diag = ExpectedParseError(scanner.source)
          /\ Len(envs) = unitStart.envs
    /\ (scanner.source = PrintTwiceSource /\ status \notin {"scanning", "parsing"}) =>
          /\ unit = << PrintStmt(Num(1)), PrintStmt(Num(2)) >>
          /\ status \in {"running", "done"}
          /\ status = "done" => UnitOut = <<"1", "2">>

C20_Witness ==
    /\ scanner.source = MissingExpressionSource
    /\ mode = "repl"
    /\ lines = MaxLines
    /\ parser.current > 0
    /\ status = "done"
    /\ UnitOut = << "Expect expression. at ';'" >>

\* C23: `for(var i=0;i<2;i=i+1)print i;` writes the lines 0 and 1, in that
\* order, and nothing else: nothing is written while the loop is parsed, and
\* when the unit is done the output is exactly 0, 1; i is not bound in the
\* surrounding scope after the loop.
C23_ForLoopOutput ==
    (scanner.source = ForSource /\ status \notin {"scanning", "parsing"}) =>
        /\ status \in {"running", "done"}
        /\ (status = "running" /\ pc = 1) => UnitOut = <<>>
        /\ status = "done" =>
              /\ UnitOut = <<"0", "1">>
              /\ "i" \notin DOMAIN envs[TopEnv].values

---------------------------------------------------------------------------
(* Properties of the parser, checked under SpecParse *)

\* C21: a 256th parameter of a declaration, or a 256th argument of a call, is
\* reported ("Can't have more than 255 parameters." / "... arguments.") and does
\* not halt the parse: the parser goes on through the remaining parameters or
\* arguments and the rest of the program, so that it ends at the Eof token.
C21_ArityErrorKeepsParsing ==
    /\ (Lexemes(parser.tokens) = ManyParameters(MaxArity + 1) /\ status # "parsing") =>
          /\ out # <<>>
          /\ out[1] = "Can't have more than 255 parameters. at 'a'"
          /\ parser.current = Len(parser.tokens) - 1
    /\ (Lexemes(parser.tokens) = ManyArguments(MaxArity + 1) /\ status # "parsing") =>
          /\ out # <<>>
          /\ out[1] = "Can't have more than 255 arguments. at '1'"
          /\ parser.current = Len(parser.tokens) - 1

\* The parse error of a right-hand side, "" when it is well formed
SourceError(rhs) ==
    CASE rhs = <<>> -> "Expect expression. at ';'"
      [] rhs = <<"(", "2">> -> "Expect ')' after expression. at ';'"
      [] rhs = <<"1", "=", "2">> -> "Invalid assignment target. at '='"
      [] OTHER -> ""

\* The expression of a well-formed right-hand side
SourceExpr(rhs) ==
    CASE rhs = <<"2">> -> Num(2)
      [] rhs = <<"b", "=", "2">> -> Assign("b", Num(2))

\* C22: in `lhs = rhs;` with lhs one of a, 1, (a), a(), a+1: a parse error of
\* the right-hand side is the error reported, whatever lhs is; otherwise a lhs
\* that is not a plain variable is reported as "Invalid assignment target."
\* located at the `=` token, and a plain variable gives the Assign node.  When
\* an error is reported the whole right-hand side has been consumed: the cursor
\* is past lhs, `=` and rhs.
C22_InvalidAssignmentTarget ==
    \A lhs \in Targets, rhs \in Sources :
        (Lexemes(parser.tokens) = Assignment(lhs, rhs) /\ status # "parsing") =>
            IF SourceError(rhs) # ""
            THEN /\ unit = <<>>
                 /\ out = << SourceError(rhs) >>
                 /\ parser.current = Len(lhs) + 1 + Len(rhs)
            ELSE IF lhs = <<"a">>
            THEN unit = << ExpressionStmt(Assign("a", SourceExpr(rhs))) >>
            ELSE /\ unit = <<>>
                 /\ out = << "Invalid assignment target. at '='" >>
                 /\ parser.current = Len(lhs) + 1 + Len(rhs)

C22_Witness ==
    /\ Lexemes(parser.tokens) = Assignment(<<"(", "a", ")">>, <<"b", "=", "2">>)
    /\ status = "done"
    /\ parser.current = 7
    /\ out = << "Invalid assignment target. at '='" >>

\* The clauses and the bodies of the for loops, as the trees they denote
InitializerStmt(initializer) ==
    CASE initializer = "none" -> None
      [] initializer = "var" -> Some(VarStmt("n", Some(Num(1))))
      [] initializer = "expression" -> Some(ExpressionStmt(Assign("n", Num(1))))

ConditionExpr(condition) ==
    CASE condition = "none" -> None
      [] condition = "less" -> Some(Binary(Variable("n"), "Less", Num(3)))

PlusOne == Assign("n", Binary(Variable("n"), "Plus", Num(1)))

IncrementExpr(increment) ==
    CASE increment = "none" -> None
      [] increment = "plus" -> Some(PlusOne)

BodyStmt(body) ==
    CASE body = "print" -> PrintStmt(Variable("n"))
      [] body = "count" ->
            BlockStmt(<< PrintStmt(Variable("n")), ExpressionStmt(PlusOne) >>)
      [] body = "return" ->
            BlockStmt(<< PrintStmt(Variable("n")),
                         IfStmt(Variable("n"), ReturnStmt(None), None),
                         ExpressionStmt(PlusOne) >>)

\* Block[ init?, While(cond ?? true, Block[ body, Expression(inc)? ]) ]
Rewrite(initializer, condition, increment, body) ==
    BlockStmt(initializer
              \o << WhileStmt(IF condition # None THEN condition[1] ELSE True,
                              BlockStmt(<< body >>
                                        \o [i \in DOMAIN increment |->
                                              ExpressionStmt(increment[i])])) >>)

\* The heap when the for statement starts: `var n=0;` has run
BeforeFor == define(EnvironmentNew(<<>>), 1, "n", NumV(0))

\* C24: for every combination of an absent or present initializer (a var
\* declaration or an expression statement), condition and increment, running the
\* statement the parser makes of `for(init cond; inc) body` after `var n=0;`
\* ends as running Block[ init?, While(cond ?? true, Block[ body,
\* Expression(inc)? ]) ] from the same state does: the same lines written, the
\* same bindings of the surrounding environment, and the same outcome (done,
\* with the same error line if any, or still looping when the budget is spent).
C24_ForDesugaringEquivalent ==
    \A initializer \in ForInitializers, condition \in ForConditions,
       increment \in ForIncrements, body \in ForBodies :
        (/\ Lexemes(parser.tokens) = ForLoop(initializer, condition, increment, body)
         /\ (pc = 3 \/ status = "diverge")) =>
            \E r \in {EvalStmt(Rewrite(InitializerStmt(initializer),
                                       ConditionExpr(condition),
                                       IncrementExpr(increment), BodyStmt(body)),
                               1, BeforeFor, SubSeq(out, 1, 1), MaxDepth)} :
                /\ out = IF r.kind = "Err" THEN Append(r.out, r.msg) ELSE r.out
                /\ envs[1] = r.envs[1]
                /\ status = CASE r.kind \in {"Ok", "Err"} -> "done"
                              [] r.kind = "Diverge" -> "diverge"
                              [] OTHER -> "panic"

C24_Witness ==
    /\ Lexemes(parser.tokens) = ForLoop("var", "less", "plus", "print")
    /\ status = "done"
    /\ pc = 3
    /\ SubSeq(out, 2, Len(out)) = <<"1", "2">>
    /\ envs[1].values["n"] = NumV(0)

\* C25: the cursor stays within the token vector, 0 <= current < its length,
\* and never passes an Eof token: every token before the cursor is not Eof.
\* When parse has returned, it has consumed at least one token for each
\* statement it returns, and if it returned Ok the cursor is at an Eof token.
C25_CursorInRange ==
    /\ parser.current \in 0..(Len(parser.tokens) - 1)
    /\ \A i \in 1..parser.current : parser.tokens[i].token_type # "Eof"
    /\ status # "parsing" =>
          /\ Len(unit) <= parser.current
          /\ (unit # <<>> \/ out = <<>>) =>
                parser.tokens[parser.current + 1].token_type = "Eof"

C25_Witness ==
    /\ Lexemes(parser.tokens) = <<"1", ";", "">>
    /\ parser.current = 2
    /\ unit = << ExpressionStmt(Num(1)) >>
    /\ status = "done"

====
